---- MODULE Spec2Model ----
(***************************************************************************)
(* A model of the ASCII-art conversion core: the glyph mapper              *)
(* (character_sets.py), the colour formatter (color_handler.py), the       *)
(* resize step (image_processor.py) and the conversion orchestrator        *)
(* (ascii_converter.py).                                                   *)
(*                                                                         *)
(* Python floats are IEEE-754 doubles.  The code's float expressions are   *)
(* modelled operation by operation with correctly rounded 53-bit           *)
(* arithmetic (round-half-to-even), on naturals held as sequences of       *)
(* limbs, so that int(), the comparisons against 128 and the half-up       *)
(* rounding see the same values the interpreter computes.                  *)
(***************************************************************************)
EXTENDS Integers, Sequences, FiniteSets, TLC

(***************************************************************************)
(* Naturals of arbitrary size: sequences of limbs, least significant       *)
(* first, without leading zero limbs.                                      *)
(***************************************************************************)
LimbBits == 15
Base == 32768

RECURSIVE Pow2(_)
Pow2(j) == IF j = 0 THEN 1 ELSE 2 * Pow2(j - 1)

Abs(k) == IF k < 0 THEN 0 - k ELSE k

RECURSIVE NTrim(_)
NTrim(X) ==
    IF X = <<>> THEN <<>>
    ELSE IF X[Len(X)] = 0 THEN NTrim(SubSeq(X, 1, Len(X) - 1)) ELSE X

RECURSIVE NFromInt(_)
NFromInt(k) == IF k = 0 THEN <<>> ELSE <<k % Base>> \o NFromInt(k \div Base)

RECURSIVE NToInt(_)
NToInt(X) == IF X = <<>> THEN 0 ELSE X[1] + Base * NToInt(Tail(X))

RECURSIVE NMulC(_, _, _)
NMulC(X, k, carry) ==
    IF X = <<>> THEN NFromInt(carry)
    ELSE LET t == X[1] * k + carry
         IN  <<t % Base>> \o NMulC(Tail(X), k, t \div Base)

\* X * k for 0 <= k <= Base
NMulSmall(X, k) == NTrim(NMulC(X, k, 0))

RECURSIVE NDivRem(_, _)
\* quotient and remainder of X by d, 0 < d <= Base
NDivRem(X, d) ==
    IF X = <<>> THEN [q |-> <<>>, r |-> 0]
    ELSE LET hi == NDivRem(Tail(X), d)
             t  == hi.r * Base + X[1]
         IN  [q |-> <<t \div d>> \o hi.q, r |-> t % d]

RECURSIVE NAddC(_, _, _)
NAddC(X, Y, carry) ==
    IF X = <<>> /\ Y = <<>> THEN NFromInt(carry)
    ELSE LET a == IF X = <<>> THEN 0 ELSE X[1]
             b == IF Y = <<>> THEN 0 ELSE Y[1]
             t == a + b + carry
         IN  <<t % Base>> \o NAddC(IF X = <<>> THEN <<>> ELSE Tail(X),
                                   IF Y = <<>> THEN <<>> ELSE Tail(Y),
                                   t \div Base)

NAdd(X, Y) == NTrim(NAddC(X, Y, 0))

RECURSIVE NSubB(_, _, _)
\* X - Y for X >= Y
NSubB(X, Y, borrow) ==
    IF X = <<>> THEN <<>>
    ELSE LET b == IF Y = <<>> THEN 0 ELSE Y[1]
             t == X[1] - b - borrow
         IN  <<IF t < 0 THEN t + Base ELSE t>>
             \o NSubB(Tail(X), IF Y = <<>> THEN <<>> ELSE Tail(Y),
                      IF t < 0 THEN 1 ELSE 0)

NSub(X, Y) == NTrim(NSubB(X, Y, 0))

RECURSIVE NLessFrom(_, _, _)
NLessFrom(X, Y, i) ==
    IF i = 0 THEN FALSE
    ELSE IF X[i] # Y[i] THEN X[i] < Y[i] ELSE NLessFrom(X, Y, i - 1)

\* X < Y, both without leading zero limbs
NLess(X, Y) ==
    IF Len(X) # Len(Y) THEN Len(X) < Len(Y) ELSE NLessFrom(X, Y, Len(X))

RECURSIVE NShl(_, _)
NShl(X, j) ==
    IF X = <<>> THEN <<>>
    ELSE IF j >= LimbBits THEN <<0>> \o NShl(X, j - LimbBits)
    ELSE NMulSmall(X, Pow2(j))

RECURSIVE NShr(_, _)
NShr(X, j) ==
    IF X = <<>> THEN <<>>
    ELSE IF j >= LimbBits THEN NShr(Tail(X), j - LimbBits)
    ELSE NTrim(NDivRem(X, Pow2(j)).q)

NBit(X, i) ==
    LET l == (i \div LimbBits) + 1
    IN  IF l > Len(X) THEN 0 ELSE (X[l] \div Pow2(i % LimbBits)) % 2

RECURSIVE BitLenSmall(_)
BitLenSmall(v) == IF v = 0 THEN 0 ELSE 1 + BitLenSmall(v \div 2)

NBitLen(X) ==
    IF X = <<>> THEN 0 ELSE LimbBits * (Len(X) - 1) + BitLenSmall(X[Len(X)])

(***************************************************************************)
(* Doubles: sign s, magnitude m * 2^e with m a natural of at most 53 bits  *)
(* (54 when a rounding carried out, the value then being a power of two).  *)
(* The values of the program stay far from the subnormal and overflow      *)
(* ranges, so the exponent is unbounded here.                              *)
(***************************************************************************)
MantBits == 53
DivGuard == 75

\* round X * 2^e (plus a nonzero tail below X when sticky) to 53 bits,
\* ties to even
FRound(s, X, sticky, e) ==
    LET L == NBitLen(X)
    IN  IF L <= MantBits THEN [s |-> s, m |-> X, e |-> e]
        ELSE LET k     == L - MantBits
                 q     == NShr(X, k)
                 guard == NBit(X, k - 1)
                 low   == sticky \/ (\E i \in 0..(k - 2) : NBit(X, i) = 1)
                 up    == guard = 1 /\ (low \/ NBit(X, k) = 1)
             IN  [s |-> s, m |-> IF up THEN NAdd(q, <<1>>) ELSE q, e |-> e + k]

FFromInt(k) == [s |-> IF k < 0 THEN -1 ELSE 1, m |-> NFromInt(Abs(k)), e |-> 0]

FIsZero(F) == F.m = <<>>

FNeg(F) == [F EXCEPT !.s = 0 - @]

\* F * 2^j, exact
FScale2(F, j) == [F EXCEPT !.e = @ + j]

\* F * k for an integer k, |k| <= Base
FMulSmall(F, k) ==
    FRound(IF k < 0 THEN 0 - F.s ELSE F.s, NMulSmall(F.m, Abs(k)), FALSE, F.e)

\* F / d for an integer 0 < d <= Base
FDivSmall(F, d) ==
    LET dr == NDivRem(NShl(F.m, DivGuard), d)
    IN  FRound(F.s, NTrim(dr.q), dr.r # 0, F.e - DivGuard)

FAdd(F, G) ==
    LET e == IF F.e < G.e THEN F.e ELSE G.e
        X == NShl(F.m, F.e - e)
        Y == NShl(G.m, G.e - e)
    IN  IF F.s = G.s THEN FRound(F.s, NAdd(X, Y), FALSE, e)
        ELSE IF NLess(X, Y) THEN FRound(G.s, NSub(Y, X), FALSE, e)
        ELSE IF NLess(Y, X) THEN FRound(F.s, NSub(X, Y), FALSE, e)
        ELSE [s |-> 1, m |-> <<>>, e |-> 0]

FSub(F, G) == FAdd(F, FNeg(G))

\* F < G
FLess(F, G) ==
    LET e == IF F.e < G.e THEN F.e ELSE G.e
        X == NShl(F.m, F.e - e)
        Y == NShl(G.m, G.e - e)
    IN  IF FIsZero(F) /\ FIsZero(G) THEN FALSE
        ELSE IF FIsZero(F) THEN G.s = 1
        ELSE IF FIsZero(G) THEN F.s = -1
        ELSE IF F.s # G.s THEN F.s = -1
        ELSE IF F.s = 1 THEN NLess(X, Y) ELSE NLess(Y, X)

\* int(F): the integer part, towards zero
FTrunc(F) ==
    F.s * NToInt(IF F.e >= 0 THEN NShl(F.m, F.e) ELSE NShr(F.m, 0 - F.e))

\* the double a decimal literal num/den denotes
FLit(num, den) == FDivSmall(FFromInt(num), den)

(***************************************************************************)
(* character_sets.py.  A glyph is a string; a code point outside printable *)
(* ASCII is written {U+XXXX} (several code points of one glyph are joined  *)
(* by commas), so U+001B is the escape character of the ANSI sequences;    *)
(* the grave accent, which a string of this language cannot hold, is       *)
(* written {U+0060}.                                                       *)
(***************************************************************************)
STANDARD ==
  <<
    "@", "%", "#", "*", "+", "=", "-", ":", ".", " "
  >>

DETAILED ==
  <<
    "$", "@", "B", "%", "8", "&", "W", "M", "#", "*", "o", "a", "h", "k",
    "b", "d", "p", "q", "w", "m", "Z", "O", "0", "Q", "L", "C", "J", "U",
    "Y", "X", "z", "c", "v", "u", "n", "x", "r", "j", "f", "t", "/", "\\",
    "|", "(", ")", "1", "{", "}", "[", "]", "?", "-", "_", "+", "~", "<",
    ">", "i", "!", "l", "I", ";", ":", ",", "\"", "^",
    "{U+0060}", "'", ".", " "
  >>

SIMPLE ==
  <<
    "@", "#", "*", ":", ".", " "
  >>

BLOCKS ==
  <<
    "{U+2588}", "{U+2593}", "{U+2592}", "{U+2591}", " "
  >>

NUMBERS ==
  <<
    "0", "1", "2", "3", "4", "5", "6", "7", "8", "9", " "
  >>

LETTERS ==
  <<
    "M", "W", "N", "X", "K", "0", "O", "k", "x", "d", "o", "l", "c", ":",
    ";", ",", ".", " "
  >>

EMOJI_BRIGHTNESS ==
  <<
    "{U+2B1B}", "{U+1F7EB}", "{U+1F7E5}", "{U+1F7E7}", "{U+1F7E8}",
    "{U+1F7E9}", "{U+1F7E6}", "{U+1F7EA}", "{U+2B1C}"
  >>

EMOJI_GRAYSCALE ==
  <<
    "{U+26AB}", "{U+1F534}", "{U+1F7E4}", "{U+1F7E0}", "{U+1F7E1}",
    "{U+1F7E2}", "{U+1F535}", "{U+1F7E3}", "{U+26AA}"
  >>

EMOJI_HEARTS ==
  <<
    "{U+1F5A4}", "{U+2764,U+FE0F}", "{U+1F9E1}", "{U+1F49B}", "{U+1F49A}",
    "{U+1F499}", "{U+1F49C}", "{U+1F90D}", "{U+1F497}"
  >>

EMOJI_SQUARES ==
  <<
    "{U+2B1B}", "{U+1F7EB}", "{U+1F7E5}", "{U+1F7E7}", "{U+1F7E8}",
    "{U+1F7E9}", "{U+1F7E6}", "{U+1F7EA}", "{U+2B1C}"
  >>

EMOJI_NATURE ==
  <<
    "{U+1F311}", "{U+1F332}", "{U+1F333}", "{U+1F334}", "{U+1F33F}",
    "{U+1F340}", "{U+1F338}", "{U+1F33C}", "{U+2600,U+FE0F}"
  >>

EMOJI_SPACE ==
  <<
    "{U+2B1B}", "{U+1F311}", "{U+1F319}", "{U+2B50}", "{U+2728}",
    "{U+1F4AB}", "{U+1F31F}", "{U+26A1}", "{U+2600,U+FE0F}"
  >>

EMOJI_OCEAN ==
  <<
    "{U+1F30A}", "{U+1F433}", "{U+1F42C}", "{U+1F420}", "{U+1F41F}",
    "{U+1F988}", "{U+1F419}", "{U+1F991}", "{U+1F48E}"
  >>

EMOJI_FOOD ==
  <<
    "{U+1F36B}", "{U+1F369}", "{U+1F36A}", "{U+1F9C1}", "{U+1F370}",
    "{U+1F368}", "{U+1F366}", "{U+1F382}", "{U+1F36C}"
  >>

EMOJI_FACES ==
  <<
    "{U+1F608}", "{U+1F47F}", "{U+1F620}", "{U+1F610}", "{U+1F642}",
    "{U+1F60A}", "{U+1F604}", "{U+1F601}", "{U+1F31F}"
  >>

EMOJI_WEATHER ==
  <<
    "{U+1F311}", "{U+2601,U+FE0F}", "{U+1F327,U+FE0F}", "{U+26C8,U+FE0F}",
    "{U+1F324,U+FE0F}", "{U+26C5}", "{U+1F325,U+FE0F}", "{U+2600,U+FE0F}",
    "{U+2728}"
  >>

EMOJI_FIRE ==
  <<
    "{U+2B1B}", "{U+1F7E4}", "{U+1F534}", "{U+1F7E0}", "{U+1F7E1}",
    "{U+1F525}", "{U+1F4A5}", "{U+2B50}", "{U+1F4AB}"
  >>

EMOJI_GEOMETRIC ==
  <<
    "{U+25FC,U+FE0F}", "{U+25FE}", "{U+25AA,U+FE0F}", "{U+25FD}",
    "{U+25FB,U+FE0F}", "{U+2B1C}", "{U+1F532}", "{U+1F533}", "{U+1F4A0}"
  >>

\* a table supplied by a caller: any object with a .value (the mapper reads
\* nothing else of it); the shortest possible table
CUSTOM_ONE == <<"#">>

CharacterSetNames ==
    {"STANDARD", "DETAILED", "SIMPLE", "BLOCKS", "NUMBERS", "LETTERS"}

\* SQUARES has the value of BRIGHTNESS, so the Enum makes it an alias of it
EmojiSetNames ==
    {"BRIGHTNESS", "GRAYSCALE", "HEARTS", "NATURE", "SPACE", "OCEAN", "FOOD",
     "FACES", "WEATHER", "FIRE", "GEOMETRIC"}

CharacterSetValue(name) ==
    CASE name = "STANDARD" -> STANDARD
      [] name = "DETAILED" -> DETAILED
      [] name = "SIMPLE"   -> SIMPLE
      [] name = "BLOCKS"   -> BLOCKS
      [] name = "NUMBERS"  -> NUMBERS
      [] name = "LETTERS"  -> LETTERS
      [] name = "CUSTOM_ONE" -> CUSTOM_ONE

EmojiSetValue(name) ==
    CASE name = "BRIGHTNESS" -> EMOJI_BRIGHTNESS
      [] name = "GRAYSCALE"  -> EMOJI_GRAYSCALE
      [] name = "HEARTS"     -> EMOJI_HEARTS
      [] name = "SQUARES"    -> EMOJI_SQUARES
      [] name = "NATURE"     -> EMOJI_NATURE
      [] name = "SPACE"      -> EMOJI_SPACE
      [] name = "OCEAN"      -> EMOJI_OCEAN
      [] name = "FOOD"       -> EMOJI_FOOD
      [] name = "FACES"      -> EMOJI_FACES
      [] name = "WEATHER"    -> EMOJI_WEATHER
      [] name = "FIRE"       -> EMOJI_FIRE
      [] name = "GEOMETRIC"  -> EMOJI_GEOMETRIC

\* CharacterMapper.__init__; emoji_set is "None" or the name of an EmojiSet
\* member (a member is always truthy)
CharacterMapper(charset, emoji_set, use_emoji) ==
    LET characters == IF use_emoji /\ emoji_set # "None"
                      THEN EmojiSetValue(emoji_set)
                      ELSE CharacterSetValue(charset)
    IN  [use_emoji  |-> use_emoji,
         characters |-> characters,
         is_emoji   |-> use_emoji /\ emoji_set # "None",
         num_chars  |-> Len(characters)]

MinInt(a, b) == IF b < a THEN b ELSE a
MaxInt(a, b) == IF b > a THEN b ELSE a

\* max(0, min(255, brightness))
ClampBrightness(F) ==
    LET lo == IF FLess(F, FFromInt(255)) THEN F ELSE FFromInt(255)
    IN  IF FLess(FFromInt(0), lo) THEN lo ELSE FFromInt(0)

\* get_character's index without the + 0.5: truncation instead of rounding
\* to nearest
MutCharacterIndexTruncates(num_chars, F) ==
    LET b          == ClampBrightness(F)
        normalized == FDivSmall(b, 255)
        index      == FTrunc(FMulSmall(normalized, num_chars - 1))
    IN  MaxInt(0, MinInt(index, num_chars - 1))

\* the index taken modulo the table length, the brightness not clamped
MutCharacterIndexWraps(num_chars, F) ==
    LET normalized == FDivSmall(F, 255)
        index      == FTrunc(FAdd(FMulSmall(normalized, num_chars - 1),
                                  FLit(5, 10)))
    IN  index % num_chars

\* the index computed by get_character
CharacterIndex(num_chars, F) ==
    LET b          == ClampBrightness(F)
        normalized == FDivSmall(b, 255)
        index      == FTrunc(FAdd(FMulSmall(normalized, num_chars - 1),
                                  FLit(5, 10)))
    IN  MaxInt(0, MinInt(index, num_chars - 1))

\* the table read from its light end
MutGetCharacterReversed(self, F) ==
    self.characters[self.num_chars - CharacterIndex(self.num_chars, F)]

get_character(self, F) ==
    self.characters[CharacterIndex(self.num_chars, F) + 1]

\* the glyph mirrored in the table instead of the brightness mirrored in 255
MutInvertedMirrorsIndex(self, F) ==
    self.characters[self.num_chars - CharacterIndex(self.num_chars, F)]

get_inverted_character(self, F) == get_character(self, FSub(FFromInt(255), F))

color_emojis ==
    [red    |-> "{U+1F7E5}", orange |-> "{U+1F7E7}", yellow |-> "{U+1F7E8}",
     green  |-> "{U+1F7E9}", blue   |-> "{U+1F7E6}", purple |-> "{U+1F7EA}",
     brown  |-> "{U+1F7EB}", black  |-> "{U+2B1B}",  white  |-> "{U+2B1C}"]

Max3(r, g, b) == MaxInt(r, MaxInt(g, b))

\* the yellow test with >= in place of >
MutColoredEmojiYellowInclusive(r, g, b) ==
    LET brightness  == FDivSmall(FFromInt(r + g + b), 3)
        max_channel == Max3(r, g, b)
    IN  IF FLess(brightness, FFromInt(30)) THEN color_emojis.black
        ELSE IF FLess(FFromInt(225), brightness) THEN color_emojis.white
        ELSE IF r = max_channel
             THEN IF g >= 150 /\ r >= 200 THEN color_emojis.yellow
                  ELSE IF g > 100 THEN color_emojis.orange
                  ELSE color_emojis.red
        ELSE IF g = max_channel THEN color_emojis.green
        ELSE IF r > 150 THEN color_emojis.purple
        ELSE color_emojis.blue

get_colored_emoji(r, g, b) ==
    LET brightness  == FDivSmall(FFromInt(r + g + b), 3)
        max_channel == Max3(r, g, b)
    IN  IF FLess(brightness, FFromInt(30)) THEN color_emojis.black
        ELSE IF FLess(FFromInt(225), brightness) THEN color_emojis.white
        ELSE IF r = max_channel
             THEN IF g > 150 /\ r > 200 THEN color_emojis.yellow
                  ELSE IF g > 100 THEN color_emojis.orange
                  ELSE color_emojis.red
        ELSE IF g = max_channel THEN color_emojis.green
        ELSE IF r > 150 THEN color_emojis.purple
        ELSE color_emojis.blue

(***************************************************************************)
(* color_handler.py                                                        *)
(***************************************************************************)
DecDigits == <<"0", "1", "2", "3", "4", "5", "6", "7", "8", "9">>

HexDigits ==
    <<"0", "1", "2", "3", "4", "5", "6", "7", "8", "9",
      "a", "b", "c", "d", "e", "f">>

RECURSIVE Dec(_)
\* the format {v} of an integer v >= 0
Dec(v) == IF v < 10 THEN DecDigits[v + 1]
          ELSE Dec(v \div 10) \o DecDigits[(v % 10) + 1]

RECURSIVE Hex(_)
Hex(v) == IF v < 16 THEN HexDigits[v + 1]
          ELSE Hex(v \div 16) \o HexDigits[(v % 16) + 1]

\* the format {v:02x}
Hex02(v) == IF v < 16 THEN "0" \o Hex(v) ELSE Hex(v)

ESC == "{U+001B}"

RGB(r, g, b) == [r |-> r, g |-> g, b |-> b]

\* no colour: the None of Optional[RGB]
NoColor == [r |-> -1, g |-> -1, b |-> -1]

to_ansi_fg(c) ==
    ESC \o "[38;2;" \o Dec(c.r) \o ";" \o Dec(c.g) \o ";" \o Dec(c.b) \o "m"

to_ansi_bg(c) ==
    ESC \o "[48;2;" \o Dec(c.r) \o ";" \o Dec(c.g) \o ";" \o Dec(c.b) \o "m"

to_html(c) == "#" \o Hex02(c.r) \o Hex02(c.g) \o Hex02(c.b)

\* RGB.brightness: 0.299 * r + 0.587 * g + 0.114 * b, left to right
RGBBrightness(c) ==
    FAdd(FAdd(FMulSmall(FLit(299, 1000), c.r), FMulSmall(FLit(587, 1000), c.g)),
         FMulSmall(FLit(114, 1000), c.b))

ColorModes == {"none", "ansi", "ansi_bg", "html", "html_bg"}

RESET == ESC \o "[0m"

ColorHandler(mode) == [mode |-> mode]

format_character(self, char, color) ==
    IF color = NoColor \/ self.mode = "none" THEN char
    ELSE IF self.mode = "ansi"
         THEN to_ansi_fg(color) \o char \o RESET
    ELSE IF self.mode = "ansi_bg"
         THEN LET text_color ==
                      IF FLess(RGBBrightness(color), FFromInt(128))
                      THEN RGB(255, 255, 255) ELSE RGB(0, 0, 0)
              IN  to_ansi_bg(color) \o to_ansi_fg(text_color) \o char \o RESET
    ELSE IF self.mode = "html"
         THEN LET escaped == CASE char = "<"  -> "&lt;"
                               [] char = ">"  -> "&gt;"
                               [] char = "&"  -> "&amp;"
                               [] char = "\"" -> "&quot;"
                               [] char = " "  -> "&nbsp;"
                               [] OTHER       -> char
              IN  "<span style=\"color:" \o to_html(color) \o "\">"
                  \o escaped \o "</span>"
    ELSE IF self.mode = "html_bg"
         THEN LET text_color ==
                      IF FLess(RGBBrightness(color), FFromInt(128))
                      THEN "#ffffff" ELSE "#000000"
                  escaped == IF char = " " THEN "&nbsp;" ELSE char
              IN  "<span style=\"background:" \o to_html(color)
                  \o ";color:" \o text_color \o "\">" \o escaped \o "</span>"
    ELSE char

\* format_emoji colouring the emoji like a character in the ANSI modes
MutFormatEmojiColours(self, emoji, color) ==
    IF self.mode \in {"html", "html_bg"}
    THEN "<span class=\"emoji\">" \o emoji \o "</span>"
    ELSE format_character(self, emoji, color)

format_emoji(self, emoji, color) ==
    IF self.mode \in {"html", "html_bg"}
    THEN "<span class=\"emoji\">" \o emoji \o "</span>"
    ELSE emoji

format_line(self, line) ==
    IF self.mode \in {"html", "html_bg"}
    THEN "<div class=\"ascii-line\">" \o line \o "</div>"
    ELSE line

\* the document of wrap_output, lines 171 to 220
HtmlDocument(font_size, line_height, letter_spacing, content) ==
    "<!DOCTYPE html>\n"
    \o "<html lang=\"en\">\n"
    \o "<head>\n"
    \o "    <meta charset=\"UTF-8\">\n"
    \o "    <meta name=\"viewport\" content=\"width=device-width, initial-scale=1.0\">\n"
    \o "    <title>ASCII Art</title>\n"
    \o "    <style>\n"
    \o "        * {\n"
    \o "            margin: 0;\n"
    \o "            padding: 0;\n"
    \o "            box-sizing: border-box;\n"
    \o "        }\n"
    \o "        body {\n"
    \o "            background: #1a1a2e;\n"
    \o "            display: flex;\n"
    \o "            justify-content: center;\n"
    \o "            align-items: center;\n"
    \o "            min-height: 100vh;\n"
    \o "            padding: 20px;\n"
    \o "        }\n"
    \o "        .ascii-container {\n"
    \o "            background: #16213e;\n"
    \o "            padding: 20px;\n"
    \o "            border-radius: 10px;\n"
    \o "            box-shadow: 0 10px 40px rgba(0, 0, 0, 0.5);\n"
    \o "            overflow-x: auto;\n"
    \o "        }\n"
    \o "        .ascii-art {\n"
    \o "            font-family: 'Courier New', 'Monaco', 'Menlo', monospace;\n"
    \o "            font-size: " \o font_size \o ";\n"
    \o "            line-height: " \o line_height \o ";\n"
    \o "            letter-spacing: " \o letter_spacing \o ";\n"
    \o "            white-space: pre;\n"
    \o "        }\n"
    \o "        .ascii-line {\n"
    \o "            display: block;\n"
    \o "        }\n"
    \o "        .emoji {\n"
    \o "            display: inline;\n"
    \o "        }\n"
    \o "    </style>\n"
    \o "</head>\n"
    \o "<body>\n"
    \o "    <div class=\"ascii-container\">\n"
    \o "        <div class=\"ascii-art\">\n"
    \o content \o "\n"
    \o "        </div>\n"
    \o "    </div>\n"
    \o "</body>\n"
    \o "</html>"

\* wrap_output with the glyph sizes for emoji output too
MutWrapOutputOneSize(self, content, is_emoji) ==
    IF self.mode \in {"html", "html_bg"}
    THEN HtmlDocument("10px", "10px", "0px", content)
    ELSE content

wrap_output(self, content, is_emoji) ==
    IF self.mode \in {"html", "html_bg"}
    THEN HtmlDocument(IF is_emoji THEN "16px" ELSE "10px",
                      IF is_emoji THEN "18px" ELSE "10px",
                      IF is_emoji THEN "2px" ELSE "0px",
                      content)
    ELSE content

(***************************************************************************)
(* image_processor.py.  Pillow (and OpenCV) are outside the repository.    *)
(* An image is held as the file it was decoded from, the operations        *)
(* applied to it since, its size and its mode; a pixel is computed on      *)
(* demand.  The library's filters are deterministic and keep the shape;    *)
(* their arithmetic is replaced by simple pixel maps (nearest-neighbour    *)
(* resampling for LANCZOS, a pivot of 128 for the contrast blend, the      *)
(* identity for denoise, sharpen and autocontrast, a neighbour difference  *)
(* for the edge operators), the conversion to mode L is Pillow's own.      *)
(* Enhancement factors are held in tenths (12 is 1.2).                     *)
(***************************************************************************)
SUPPORTED_FORMATS ==
    {".png", ".jpg", ".jpeg", ".gif", ".bmp", ".webp", ".tiff", ".ico"}

\* the files of the model: whether the path exists, its suffix, its size
\* when it decodes
FileNames ==
    {"quad.png", "dot.png", "bars.png", "strip.png", "wide.png",
     "gray.png", "SCAN.PNG", "missing.png", "missing.txt", "notes.txt"}

FileExists(path) == path \notin {"missing.png", "missing.txt"}

FileSuffix(path) ==
    CASE path \in {"notes.txt", "missing.txt"} -> ".txt"
      [] path = "SCAN.PNG" -> ".PNG"
      [] OTHER -> ".png"

\* suffix.lower()
LowerSuffix(suffix) == IF suffix = ".PNG" THEN ".png" ELSE suffix

FileSize(path) ==
    CASE path = "quad.png"  -> <<2, 2>>
      [] path = "dot.png"   -> <<1, 1>>
      [] path = "bars.png"  -> <<4, 3>>
      [] path = "strip.png" -> <<3, 13>>
      [] path = "wide.png"  -> <<200, 100>>
      [] path = "gray.png"  -> <<100, 100>>
      [] OTHER              -> <<1, 1>>

\* the decoded pixel of a file at column x, row y (from 0)
FilePixel(path, x, y) ==
    CASE path = "quad.png" ->
             (IF y = 0 THEN (IF x = 0 THEN <<0, 0, 0>> ELSE <<255, 255, 255>>)
              ELSE (IF x = 0 THEN <<220, 180, 10>> ELSE <<10, 10, 220>>))
      [] path = "dot.png"   -> <<8, 200, 72>>
      [] path = "bars.png"  -> <<85 * x, 255 - 85 * x, 100 * y>>
      [] path = "strip.png" -> <<100 * x, 19 * y, 128>>
      [] path = "wide.png"  -> <<x, 2 * y, 128>>
      [] path = "gray.png"  -> <<128, 128, 128>>
      [] OTHER              -> <<0, 0, 0>>

Clamp255(v) == MaxInt(0, MinInt(255, v))

\* Pillow's RGB to L
Luma(p) == (19595 * p[1] + 38470 * p[2] + 7471 * p[3] + 32768) \div 65536

Gray(v) == <<v, v, v>>

\* v moved away from pivot by factor f10 / 10, towards zero
Blend(pivot, v, f10) ==
    LET d == (v - pivot) * f10
    IN  Clamp255(pivot + (IF d < 0 THEN 0 - ((0 - d) \div 10) ELSE d \div 10))

\* cv2.Canny(img_array, 100, 200): the gradient from which a pixel is an
\* edge on its own
CannyThreshold == 200

RECURSIVE PixelAt(_, _, _, _, _)
\* the pixel at (x, y) after the first k operations of ops on the file src
PixelAt(src, ops, k, x, y) ==
    IF k = 0 THEN FilePixel(src, x, y)
    ELSE LET o    == ops[k]
             prev == PixelAt(src, ops, k - 1, x, y)
         IN  CASE o.op = "resize" ->
                      PixelAt(src, ops, k - 1,
                              (x * o.from[1]) \div o.to[1],
                              (y * o.from[2]) \div o.to[2])
               [] o.op = "convert_L" -> Gray(Luma(prev))
               [] o.op = "contrast" ->
                      <<Blend(128, prev[1], o.factor),
                        Blend(128, prev[2], o.factor),
                        Blend(128, prev[3], o.factor)>>
               [] o.op = "brightness" ->
                      <<Blend(0, prev[1], o.factor),
                        Blend(0, prev[2], o.factor),
                        Blend(0, prev[3], o.factor)>>
               [] o.op = "edges" ->
                      LET w  == o.size[1]
                          h  == o.size[2]
                          c  == Luma(prev)
                          rx == Luma(PixelAt(src, ops, k - 1,
                                             MinInt(x + 1, w - 1), y))
                          dy == Luma(PixelAt(src, ops, k - 1,
                                             x, MinInt(y + 1, h - 1)))
                      IN  Gray(255 - MinInt(255, Abs(c - rx) + Abs(c - dy)))
               [] o.op = "canny" ->
                      LET w  == o.size[1]
                          h  == o.size[2]
                          c  == Luma(prev)
                          rx == Luma(PixelAt(src, ops, k - 1,
                                             MinInt(x + 1, w - 1), y))
                          dy == Luma(PixelAt(src, ops, k - 1,
                                             x, MinInt(y + 1, h - 1)))
                      IN  Gray(255 - (IF Abs(c - rx) + Abs(c - dy)
                                           >= CannyThreshold
                                      THEN 255 ELSE 0))
               [] o.op = "crop" ->
                      PixelAt(src, ops, k - 1, x + o.left, y + o.top)
               [] o.op = "rotate90" ->
                      PixelAt(src, ops, k - 1, o.from[1] - 1 - y, x)
               [] o.op = "rotate180" ->
                      PixelAt(src, ops, k - 1,
                              o.from[1] - 1 - x, o.from[2] - 1 - y)
               [] o.op = "flip_horizontal" ->
                      PixelAt(src, ops, k - 1, o.from[1] - 1 - x, y)
               [] o.op = "flip_vertical" ->
                      PixelAt(src, ops, k - 1, x, o.from[2] - 1 - y)
               [] OTHER -> prev

PixelOf(img, x, y) == PixelAt(img.src, img.ops, Len(img.ops), x, y)

\* Image.open(path).convert("RGB")
OpenImage(path) ==
    [src |-> path, ops |-> <<>>, size |-> FileSize(path), mode |-> "RGB"]

ApplyOp(img, o) == [img EXCEPT !.ops = Append(@, o)]

\* self.processor = None
NoProcessor == [loaded |-> FALSE]

\* _validate_image looking at the suffix before the existence of the file
MutValidateImageSuffixFirst(path) ==
    IF LowerSuffix(FileSuffix(path)) \notin SUPPORTED_FORMATS
    THEN "ValueError"
    ELSE IF ~FileExists(path) THEN "FileNotFoundError"
    ELSE "ok"

\* _validate_image: "FileNotFoundError", "ValueError" or "ok"
ValidateImage(path) ==
    IF ~FileExists(path) THEN "FileNotFoundError"
    ELSE IF LowerSuffix(FileSuffix(path)) \notin SUPPORTED_FORMATS
    THEN "ValueError"
    ELSE "ok"

\* ImageProcessor.__init__ once the path is validated
ImageProcessor(path) ==
    [original_image |-> OpenImage(path), processed_image |-> OpenImage(path),
     loaded |-> TRUE]

\* the derived height rounded to nearest, int(... + 0.5), instead of
\* truncated
MutDerivedHeightRounds(original_width, original_height, width, ratio_exp) ==
    LET image_aspect == FDivSmall(FFromInt(original_height), original_width)
    IN  FTrunc(FAdd(FScale2(FMulSmall(image_aspect, width), ratio_exp),
                    FLit(5, 10)))

\* the height resize derives: int(width * image_aspect * char_aspect_ratio)
\* with image_aspect = original_height / original_width; the ratio is 0.5
\* (ratio_exp = -1) or 1.0 (ratio_exp = 0)
DerivedHeight(original_width, original_height, width, ratio_exp) ==
    LET image_aspect == FDivSmall(FFromInt(original_height), original_width)
    IN  FTrunc(FScale2(FMulSmall(image_aspect, width), ratio_exp))

\* the target size without the minimum of 1
MutResizeTargetUnclamped(size, width, height, maintain_aspect, ratio_exp) ==
    LET h == IF maintain_aspect
             THEN DerivedHeight(size[1], size[2], width, ratio_exp)
             ELSE IF height = <<>> THEN width
             ELSE height[1]
    IN  <<width, h>>

\* the size resize gives the image; height is <<>> (None) or <<h>>
ResizeTarget(size, width, height, maintain_aspect, ratio_exp) ==
    LET h == IF maintain_aspect
             THEN DerivedHeight(size[1], size[2], width, ratio_exp)
             ELSE IF height = <<>> THEN width
             ELSE height[1]
    IN  <<MaxInt(1, width), MaxInt(1, h)>>

resize(self, width, height, maintain_aspect, ratio_exp) ==
    LET to == ResizeTarget(self.processed_image.size, width, height,
                           maintain_aspect, ratio_exp)
    IN  [self EXCEPT !.processed_image =
            [ApplyOp(@, [op |-> "resize", from |-> @.size, to |-> to])
                EXCEPT !.size = to]]

to_grayscale(self) ==
    [self EXCEPT !.processed_image =
        [ApplyOp(@, [op |-> "convert_L"]) EXCEPT !.mode = "L"]]

adjust_contrast(self, factor) ==
    [self EXCEPT !.processed_image =
        ApplyOp(@, [op |-> "contrast", factor |-> factor])]

adjust_brightness(self, factor) ==
    [self EXCEPT !.processed_image =
        ApplyOp(@, [op |-> "brightness", factor |-> factor])]

sharpen(self, factor) ==
    [self EXCEPT !.processed_image =
        ApplyOp(@, [op |-> "sharpen", factor |-> factor])]

\* lines 10 to 14: whether cv2 could be imported
VARIABLE HAS_OPENCV

\* edge_detection leaving the mode of the image as it was
MutEdgeDetectionKeepsMode(self) ==
    [self EXCEPT !.processed_image =
        ApplyOp(@, [op |-> IF HAS_OPENCV THEN "canny" ELSE "edges",
                    size |-> @.size])]

\* with OpenCV the inverted Canny edges of the grayscale image, without
\* it the inverted FIND_EDGES filter of the grayscale image: a
\* single-channel image of the same size
edge_detection(self) ==
    [self EXCEPT !.processed_image =
        [ApplyOp(@, [op |-> IF HAS_OPENCV THEN "canny" ELSE "edges",
                     size |-> @.size])
            EXCEPT !.mode = "L"]]

denoise(self) ==
    [self EXCEPT !.processed_image = ApplyOp(@, [op |-> "denoise"])]

auto_enhance(self) ==
    [self EXCEPT !.processed_image = ApplyOp(@, [op |-> "autocontrast"])]

\* rotate(angle) with expand=True, for a quarter turn (counterclockwise)
\* and a half turn
rotate(self, angle) ==
    [self EXCEPT !.processed_image =
        IF angle = 90
        THEN [ApplyOp(@, [op |-> "rotate90", from |-> @.size])
                 EXCEPT !.size = <<@[2], @[1]>>]
        ELSE ApplyOp(@, [op |-> "rotate180", from |-> @.size])]

flip_horizontal(self) ==
    [self EXCEPT !.processed_image =
        ApplyOp(@, [op |-> "flip_horizontal", from |-> @.size])]

flip_vertical(self) ==
    [self EXCEPT !.processed_image =
        ApplyOp(@, [op |-> "flip_vertical", from |-> @.size])]

\* crop_center(ratio): the ratio is the double ratio10 / 10
crop_center(self, ratio10) ==
    LET width      == self.processed_image.size[1]
        height     == self.processed_image.size[2]
        new_width  == FTrunc(FMulSmall(FLit(ratio10, 10), width))
        new_height == FTrunc(FMulSmall(FLit(ratio10, 10), height))
        left       == (width - new_width) \div 2
        top        == (height - new_height) \div 2
    IN  [self EXCEPT !.processed_image =
            [ApplyOp(@, [op |-> "crop", left |-> left, top |-> top])
                EXCEPT !.size = <<new_width, new_height>>]]

\* get_pixel_matrix taking the first channel of an image that is not
\* grayscale
MutPixelMatrixFirstChannel(self) ==
    LET img == self.processed_image
    IN  [y \in 1..img.size[2] |->
            [x \in 1..img.size[1] |-> PixelOf(img, x - 1, y - 1)[1]]]

\* the rows of get_pixel_matrix: row y + 1, column x + 1
get_pixel_matrix(self) ==
    LET img == self.processed_image
    IN  [y \in 1..img.size[2] |->
            [x \in 1..img.size[1] |->
                IF img.mode # "L" THEN Luma(PixelOf(img, x - 1, y - 1))
                ELSE PixelOf(img, x - 1, y - 1)[1]]]

\* get_color_matrix reading the processed image
MutColorMatrixFromProcessed(self) ==
    LET img == self.processed_image
    IN  [y \in 1..img.size[2] |->
            [x \in 1..img.size[1] |-> PixelOf(img, x - 1, y - 1)]]

\* get_color_matrix: the original image resampled to the processed size
get_color_matrix(self) ==
    LET o   == self.original_image
        to  == self.processed_image.size
        img == [ApplyOp(o, [op |-> "resize", from |-> o.size, to |-> to])
                   EXCEPT !.size = to]
    IN  [y \in 1..to[2] |-> [x \in 1..to[1] |-> PixelOf(img, x - 1, y - 1)]]

\* reset leaving the processed image as it is
MutResetKeepsProcessed(self) == self

\* reset: the processed image is a copy of the original again
reset(self) == [self EXCEPT !.processed_image = self.original_image]

\* the size property answering with the size of the original image
MutSizeOfOriginal(self) == self.original_image.size

\* the size property: the size of the processed image
size(self) == self.processed_image.size

(***************************************************************************)
(* ascii_converter.py.  A ConversionSettings object lives in the heap      *)
(* (settingsHeap, indexed by object identity) since convert works on the   *)
(* caller's object.  A str keyword value is written with its quotes        *)
(* ("'simple'"), an Enum member by its name (charset, emoji_set) or value  *)
(* (color_mode).                                                           *)
(***************************************************************************)
DefaultSettings ==
    [width |-> 100, height |-> <<>>, charset |-> "DETAILED",
     color_mode |-> "none", invert |-> FALSE, contrast |-> 12,
     brightness |-> 10, edge_detection |-> FALSE, denoise |-> TRUE,
     use_emoji |-> FALSE, emoji_set |-> "BRIGHTNESS", color_emoji |-> FALSE,
     dithering |-> FALSE, sharpen |-> 10, auto_enhance |-> FALSE]

\* the table names get_charset_by_name knows, as the caller writes them
CharsetStrs ==
    {"'standard'", "'detailed'", "'simple'", "'blocks'", "'numbers'",
     "'letters'"}

\* the table names get_emoji_set_by_name knows
EmojiSetStrs ==
    {"'brightness'", "'grayscale'", "'hearts'", "'squares'", "'nature'",
     "'space'", "'ocean'", "'food'", "'faces'", "'weather'", "'fire'",
     "'geometric'"}

\* str arguments: the known names, names with capitals, and other strings
StrValues ==
    CharsetStrs \cup EmojiSetStrs
    \cup {"'SIMPLE'", "'Blocks'", "'Hearts'", "'GEOMETRIC'", "'Invalid'",
          "'invalid'", "''", "'simple '", "'html'", "'ansi_bg'"}

\* name.lower(), without the quotes
LowerName(v) ==
    CASE v = "'SIMPLE'" -> "simple"
      [] v = "'Blocks'" -> "blocks"
      [] v = "'Hearts'" -> "hearts"
      [] v = "'GEOMETRIC'" -> "geometric"
      [] v = "'Invalid'" -> "invalid"
      [] v = "'standard'" -> "standard"
      [] v = "'detailed'" -> "detailed"
      [] v = "'simple'" -> "simple"
      [] v = "'blocks'" -> "blocks"
      [] v = "'numbers'" -> "numbers"
      [] v = "'letters'" -> "letters"
      [] v = "'brightness'" -> "brightness"
      [] v = "'grayscale'" -> "grayscale"
      [] v = "'hearts'" -> "hearts"
      [] v = "'squares'" -> "squares"
      [] v = "'nature'" -> "nature"
      [] v = "'space'" -> "space"
      [] v = "'ocean'" -> "ocean"
      [] v = "'food'" -> "food"
      [] v = "'faces'" -> "faces"
      [] v = "'weather'" -> "weather"
      [] v = "'fire'" -> "fire"
      [] v = "'geometric'" -> "geometric"
      [] v = "'invalid'" -> "invalid"
      [] v = "''" -> ""
      [] v = "'simple '" -> "simple "
      [] v = "'html'" -> "html"
      [] v = "'ansi_bg'" -> "ansi_bg"

\* get_charset_by_name with CharacterSet.STANDARD for the unknown names
MutCharsetByNameDefaultsToStandard(name) ==
    LET l == LowerName(name)
    IN  CASE l = "detailed" -> "DETAILED"
          [] l = "simple"   -> "SIMPLE"
          [] l = "blocks"   -> "BLOCKS"
          [] l = "numbers"  -> "NUMBERS"
          [] l = "letters"  -> "LETTERS"
          [] OTHER          -> "STANDARD"

get_charset_by_name(name) ==
    LET l == LowerName(name)
    IN  CASE l = "standard" -> "STANDARD"
          [] l = "detailed" -> "DETAILED"
          [] l = "simple"   -> "SIMPLE"
          [] l = "blocks"   -> "BLOCKS"
          [] l = "numbers"  -> "NUMBERS"
          [] l = "letters"  -> "LETTERS"
          [] OTHER          -> "DETAILED"

get_emoji_set_by_name(name) ==
    LET l == LowerName(name)
    IN  CASE l = "brightness" -> "BRIGHTNESS"
          [] l = "grayscale"  -> "GRAYSCALE"
          [] l = "hearts"     -> "HEARTS"
          [] l = "squares"    -> "BRIGHTNESS"
          [] l = "nature"     -> "NATURE"
          [] l = "space"      -> "SPACE"
          [] l = "ocean"      -> "OCEAN"
          [] l = "food"       -> "FOOD"
          [] l = "faces"      -> "FACES"
          [] l = "weather"    -> "WEATHER"
          [] l = "fire"       -> "FIRE"
          [] l = "geometric"  -> "GEOMETRIC"
          [] OTHER            -> "BRIGHTNESS"

\* ColorMode(value) for a str: the member with that value, or ValueError
ColorModeOfStr(v) ==
    LET l == IF v \in {"'html'", "'ansi_bg'"} THEN LowerName(v) ELSE "?"
    IN  IF l \in ColorModes THEN l ELSE "ValueError"

\* the keyword value after lines 123 to 128
ResolveKwarg(key, value) ==
    IF key = "charset" /\ value \in StrValues
    THEN get_charset_by_name(value)
    ELSE IF key = "emoji_set" /\ value \in StrValues
    THEN get_emoji_set_by_name(value)
    ELSE IF key = "color_mode" /\ value \in StrValues
    THEN ColorModeOfStr(value)
    ELSE value

\* lines 131 to 133: every keyword that names a field is set on the object
ApplyKwargs(settings, kwargs) ==
    [f \in DOMAIN settings |->
        IF f \in DOMAIN kwargs THEN ResolveKwarg(f, kwargs[f]) ELSE settings[f]]

KwargsRaise(kwargs) ==
    /\ "color_mode" \in DOMAIN kwargs
    /\ kwargs.color_mode \in StrValues
    /\ ColorModeOfStr(kwargs.color_mode) = "ValueError"

RECURSIVE JoinWith(_, _)
\* sep.join(parts)
JoinWith(sep, parts) ==
    IF parts = <<>> THEN ""
    ELSE IF Len(parts) = 1 THEN parts[1]
    ELSE parts[1] \o sep \o JoinWith(sep, Tail(parts))

\* one cell with the invert flag looked at before the colour-driven emoji
MutGenerateCellInvertFirst(settings, chmapper, color_handler, has_color, gray, color) ==
    LET char == IF settings.invert
                THEN get_inverted_character(chmapper, FFromInt(gray))
                ELSE IF settings.use_emoji /\ settings.color_emoji
                        /\ has_color
                THEN get_colored_emoji(color[1], color[2], color[3])
                ELSE get_character(chmapper, FFromInt(gray))
        rgb  == RGB(color[1], color[2], color[3])
    IN  IF has_color /\ settings.color_mode # "none"
        THEN IF settings.use_emoji
             THEN [glyph |-> char, via |-> "format_emoji",
                   text |-> format_emoji(color_handler, char, rgb)]
             ELSE [glyph |-> char, via |-> "format_character",
                   text |-> format_character(color_handler, char, rgb)]
        ELSE [glyph |-> char, via |-> "none", text |-> char]

\* one cell of _generate_ascii, lines 229 to 251: the glyph, the formatter
\* used on it ("none" when no colour is applied) and the text appended to
\* the row
GenerateCell(settings, chmapper, color_handler, has_color, gray, color) ==
    LET char == IF settings.use_emoji /\ settings.color_emoji /\ has_color
                THEN get_colored_emoji(color[1], color[2], color[3])
                ELSE IF settings.invert
                THEN get_inverted_character(chmapper, FFromInt(gray))
                ELSE get_character(chmapper, FFromInt(gray))
        rgb  == RGB(color[1], color[2], color[3])
    IN  IF has_color /\ settings.color_mode # "none"
        THEN IF settings.use_emoji
             THEN [glyph |-> char, via |-> "format_emoji",
                   text |-> format_emoji(color_handler, char, rgb)]
             ELSE [glyph |-> char, via |-> "format_character",
                   text |-> format_character(color_handler, char, rgb)]
        ELSE [glyph |-> char, via |-> "none", text |-> char]

\* the cells of _generate_ascii without the last column
MutGenerateCellsSkipLastColumn(settings, processor) ==
    LET grayscale_matrix == get_pixel_matrix(processor)
        has_color    == settings.color_mode # "none" \/ settings.color_emoji
        color_matrix == IF has_color THEN get_color_matrix(processor)
                        ELSE <<>>
        chmapper     == CharacterMapper(settings.charset,
                            IF settings.use_emoji THEN settings.emoji_set
                            ELSE "None",
                            settings.use_emoji)
        color_handler == ColorHandler(settings.color_mode)
    IN  [y \in 1..Len(grayscale_matrix) |->
            [x \in 1..(Len(grayscale_matrix[y]) - 1) |->
                GenerateCell(settings, chmapper, color_handler, has_color,
                             grayscale_matrix[y][x],
                             IF has_color THEN color_matrix[y][x]
                             ELSE <<0, 0, 0>>)]]

\* the cells of _generate_ascii, row by row
GenerateCells(settings, processor) ==
    LET grayscale_matrix == get_pixel_matrix(processor)
        has_color    == settings.color_mode # "none" \/ settings.color_emoji
        color_matrix == IF has_color THEN get_color_matrix(processor)
                        ELSE <<>>
        chmapper     == CharacterMapper(settings.charset,
                            IF settings.use_emoji THEN settings.emoji_set
                            ELSE "None",
                            settings.use_emoji)
        color_handler == ColorHandler(settings.color_mode)
    IN  [y \in 1..Len(grayscale_matrix) |->
            [x \in 1..Len(grayscale_matrix[y]) |->
                GenerateCell(settings, chmapper, color_handler, has_color,
                             grayscale_matrix[y][x],
                             IF has_color THEN color_matrix[y][x]
                             ELSE <<0, 0, 0>>)]]

RECURSIVE ConcatTexts(_)
\* ''.join(line_chars)
ConcatTexts(cs) ==
    IF cs = <<>> THEN "" ELSE cs[1].text \o ConcatTexts(Tail(cs))

\* the line appended for a row, lines 253 to 255
GenerateLine(settings, row) ==
    LET line == ConcatTexts(row)
    IN  IF settings.color_mode \in {"html", "html_bg"}
        THEN format_line(ColorHandler(settings.color_mode), line)
        ELSE line

(***************************************************************************)
(* State.                                                                  *)
(*   mapper, brightness, pixel, glyph, mcall: one CharacterMapper, the     *)
(*     arguments of a call on it, what the call returned and which method  *)
(*     it was;                                                             *)
(*   handler, fchar, fcolor, fflag, formatted, fcall: one ColorHandler,    *)
(*     the arguments of a call on it (the text, the colour, is_emoji),     *)
(*     what the call returned and which method it was;                     *)
(*   processor, pcall: one ImageProcessor used on its own and the last     *)
(*     call on it with its arguments;                                      *)
(*   HAS_OPENCV (declared with the image processor): the flag of           *)
(*     image_processor.py, fixed when the module is imported;              *)
(*   heap: the ConversionSettings objects, by identity (1, 2, ...);        *)
(*   converter: the fields of one ASCIIConverter, settings being the       *)
(*     identity of a heap object or 0 for None;                            *)
(*   frame: the convert call in progress: where it is (pc), its arguments, *)
(*     its local variables, and a record of what it did (the steps of      *)
(*     preprocessing that ran, the cells and lines it generated);          *)
(*   result: what the convert call returned or raised;                     *)
(*   other: a second convert call, when there is one, while it is not the  *)
(*     one running: its frame and result, its converter when it is not     *)
(*     made on the same one (shared), and the heap as it was when the      *)
(*     first call had finished and the second was made.                    *)
(***************************************************************************)
VARIABLES mapper, brightness, pixel, glyph, mcall,
          handler, fchar, fcolor, fflag, formatted, fcall,
          processor, pcall,
          heap, converter, frame, result, other

mapperVars == <<mapper, brightness, pixel, glyph, mcall>>
colorVars == <<handler, fchar, fcolor, fflag, formatted, fcall>>
processorVars == <<processor, pcall, HAS_OPENCV>>
convertVars == <<heap, converter, frame, result, other>>

vars == <<mapperVars, colorVars, processorVars, convertVars>>

\* brightness arguments: the multiples of 0.5 from BrightMargin below 0 to
\* BrightMargin above 255 (a pixel of the intensity matrix is a whole number
\* in 0..255)
BrightMargin == 3

Brightnesses ==
    {FScale2(FFromInt(h), -1) : h \in (0 - 2 * BrightMargin)..(510 + 2 * BrightMargin)}

\* channel values around every threshold of get_colored_emoji
ChannelSamples ==
    {0, 10, 29, 30, 45, 100, 101, 150, 151, 180, 200, 201, 220, 225, 226,
     245, 255}

Mappers ==
    {CharacterMapper(c, "None", FALSE) : c \in CharacterSetNames \cup {"CUSTOM_ONE"}}
    \cup {CharacterMapper("DETAILED", e, TRUE) : e \in EmojiSetNames}

NoGlyph == "-none-"

\* glyph arguments: the five characters HTML reserves, other glyphs of the
\* tables, and emoji
GlyphSamples ==
    {"<", ">", "&", "\"", " ", "@", "#", "\\", ";", "{U+2588}"}

EmojiSamples == {"{U+2B1B}", "{U+2764,U+FE0F}", "{U+1F7E8}"}

\* colours: the grays of luminance 0, 127, 128 and 255, colours whose exact
\* luminance is 128 or next to it, and others
ColorSamples ==
    {RGB(0, 0, 0), RGB(127, 127, 127), RGB(128, 128, 128),
     RGB(255, 255, 255), RGB(8, 200, 72), RGB(8, 200, 71), RGB(8, 200, 73),
     RGB(24, 160, 236), RGB(255, 128, 64), RGB(220, 180, 10),
     RGB(10, 10, 220), RGB(0, 218, 0), RGB(0, 219, 0), RGB(9, 16, 255),
     RGB(255, 0, 255), RGB(1, 2, 3)}

LineSamples == {"", "@#", "<span class=\"emoji\">{U+2B1B}</span>", "a\nb"}

NoResult == [kind |-> "none"]

Raised(error) == [kind |-> "raised", error |-> error]

IdleProcessor ==
    /\ processor = NoProcessor
    /\ pcall = [op |-> "idle"]

\* no second call
NoCall ==
    [frame |-> [pc |-> "idle"], result |-> NoResult,
     converter |-> [image_path |-> "", processor |-> NoProcessor,
                    settings |-> 0],
     shared |-> TRUE, heap |-> <<>>]

IdleConvert ==
    /\ heap = <<>>
    /\ converter = [image_path |-> "", processor |-> NoProcessor,
                    settings |-> 0]
    /\ frame = [pc |-> "idle"]
    /\ result = NoResult
    /\ other = NoCall

IdleColor ==
    /\ fcall = "idle"
    /\ handler = ColorHandler("none")
    /\ fchar = ""
    /\ fcolor = NoColor
    /\ fflag = FALSE
    /\ formatted = ""

IdleMapper ==
    /\ mcall = "idle"
    /\ glyph = NoGlyph
    /\ mapper = CharacterMapper("DETAILED", "None", FALSE)
    /\ brightness = FFromInt(0)
    /\ pixel = <<0, 0, 0>>

InitMapper ==
    /\ IdleColor
    /\ IdleProcessor
    /\ HAS_OPENCV = FALSE
    /\ IdleConvert
    /\ mcall = "init"
    /\ glyph = NoGlyph
    /\ \/ /\ mapper \in Mappers
          /\ brightness \in Brightnesses
          /\ pixel = <<0, 0, 0>>
       \/ /\ mapper = CharacterMapper("DETAILED", "BRIGHTNESS", TRUE)
          /\ brightness = FFromInt(0)
          /\ pixel \in ChannelSamples \X ChannelSamples \X ChannelSamples

GetCharacter ==
    /\ mcall = "init"
    /\ pixel = <<0, 0, 0>>
    /\ glyph' = get_character(mapper, brightness)
    /\ mcall' = "get_character"
    /\ UNCHANGED <<mapper, brightness, pixel, colorVars, processorVars,
                   convertVars>>

GetInvertedCharacter ==
    /\ mcall = "init"
    /\ pixel = <<0, 0, 0>>
    /\ glyph' = get_inverted_character(mapper, brightness)
    /\ mcall' = "get_inverted_character"
    /\ UNCHANGED <<mapper, brightness, pixel, colorVars, processorVars,
                   convertVars>>

GetColoredEmoji ==
    /\ mcall = "init"
    /\ mapper.is_emoji
    /\ brightness = FFromInt(0)
    /\ glyph' = get_colored_emoji(pixel[1], pixel[2], pixel[3])
    /\ mcall' = "get_colored_emoji"
    /\ UNCHANGED <<mapper, brightness, pixel, colorVars, processorVars,
                   convertVars>>

NextMapper == GetCharacter \/ GetInvertedCharacter \/ GetColoredEmoji

SpecMapper == InitMapper /\ [][NextMapper]_vars

InitColor ==
    /\ IdleMapper
    /\ IdleProcessor
    /\ HAS_OPENCV = FALSE
    /\ IdleConvert
    /\ fcall = "init"
    /\ formatted = ""
    /\ handler \in {ColorHandler(m) : m \in ColorModes}
    /\ \/ /\ fchar \in GlyphSamples \cup EmojiSamples
          /\ fcolor \in ColorSamples \cup {NoColor}
          /\ fflag = FALSE
       \/ /\ fchar \in LineSamples
          /\ fcolor = NoColor
          /\ fflag \in BOOLEAN

FormatCharacter ==
    /\ fcall = "init"
    /\ fchar \in GlyphSamples
    /\ formatted' = format_character(handler, fchar, fcolor)
    /\ fcall' = "format_character"
    /\ UNCHANGED <<handler, fchar, fcolor, fflag, mapperVars, processorVars,
                   convertVars>>

FormatEmoji ==
    /\ fcall = "init"
    /\ fchar \in EmojiSamples
    /\ formatted' = format_emoji(handler, fchar, fcolor)
    /\ fcall' = "format_emoji"
    /\ UNCHANGED <<handler, fchar, fcolor, fflag, mapperVars, processorVars,
                   convertVars>>

FormatLine ==
    /\ fcall = "init"
    /\ fchar \in LineSamples
    /\ formatted' = format_line(handler, fchar)
    /\ fcall' = "format_line"
    /\ UNCHANGED <<handler, fchar, fcolor, fflag, mapperVars, processorVars,
                   convertVars>>

WrapOutput ==
    /\ fcall = "init"
    /\ fchar \in LineSamples
    /\ formatted' = wrap_output(handler, fchar, fflag)
    /\ fcall' = "wrap_output"
    /\ UNCHANGED <<handler, fchar, fcolor, fflag, mapperVars, processorVars,
                   convertVars>>

NextColor == FormatCharacter \/ FormatEmoji \/ FormatLine \/ WrapOutput

SpecColor == InitColor /\ [][NextColor]_vars

(***************************************************************************)
(* An ImageProcessor used on its own: at most MaxOps operations on a       *)
(* loaded image.                                                           *)
(***************************************************************************)
MaxOps == 2

ProcessorFiles == {"quad.png", "bars.png", "strip.png", "wide.png"}

\* width arguments: below 1, small, and those of the documented example
\* (100) and of products that are whole numbers (27, 54)
WidthSamples == {-1, 0, 1, 2, 5, 27, 54, 100}

\* height arguments: None, below 1, and above
HeightSamples == {<<>>, <<-1>>, <<0>>, <<13>>}

FactorSamples == {5, 12}

\* crop_center ratios, in tenths (0.8 is the default)
RatioSamples == {8}

\* rotate angles, in degrees
AngleSamples == {90, 180}

InitProcessor ==
    /\ IdleMapper
    /\ IdleColor
    /\ IdleConvert
    /\ processor \in {ImageProcessor(f) : f \in ProcessorFiles}
    /\ pcall = [op |-> "init"]
    /\ HAS_OPENCV \in BOOLEAN

\* a loaded processor that has operations left; the operations on an
\* image that a crop has left without pixels are not modelled
MayOperate ==
    /\ processor # NoProcessor
    /\ Len(processor.processed_image.ops) < MaxOps
    /\ processor.processed_image.size[1] > 0
    /\ processor.processed_image.size[2] > 0

Resize ==
    /\ MayOperate
    /\ \E width \in WidthSamples, height \in HeightSamples,
          maintain_aspect \in BOOLEAN, ratio_exp \in {-1, 0} :
          /\ maintain_aspect => height = <<>>
          /\ ~maintain_aspect => ratio_exp = -1
          /\ processor' = resize(processor, width, height, maintain_aspect,
                                 ratio_exp)
          /\ pcall' = [op |-> "resize", width |-> width, height |-> height,
                       maintain_aspect |-> maintain_aspect,
                       ratio_exp |-> ratio_exp,
                       before |-> processor.processed_image.size]
    /\ UNCHANGED <<HAS_OPENCV, mapperVars, colorVars, convertVars>>

ToGrayscale ==
    /\ MayOperate
    /\ processor' = to_grayscale(processor)
    /\ pcall' = [op |-> "to_grayscale"]
    /\ UNCHANGED <<HAS_OPENCV, mapperVars, colorVars, convertVars>>

AdjustContrast ==
    /\ MayOperate
    /\ \E factor \in FactorSamples :
          /\ processor' = adjust_contrast(processor, factor)
          /\ pcall' = [op |-> "adjust_contrast", factor |-> factor]
    /\ UNCHANGED <<HAS_OPENCV, mapperVars, colorVars, convertVars>>

AdjustBrightness ==
    /\ MayOperate
    /\ \E factor \in FactorSamples :
          /\ processor' = adjust_brightness(processor, factor)
          /\ pcall' = [op |-> "adjust_brightness", factor |-> factor]
    /\ UNCHANGED <<HAS_OPENCV, mapperVars, colorVars, convertVars>>

Sharpen ==
    /\ MayOperate
    /\ \E factor \in FactorSamples :
          /\ processor' = sharpen(processor, factor)
          /\ pcall' = [op |-> "sharpen", factor |-> factor]
    /\ UNCHANGED <<HAS_OPENCV, mapperVars, colorVars, convertVars>>

EdgeDetection ==
    /\ MayOperate
    /\ processor' = edge_detection(processor)
    /\ pcall' = [op |-> "edge_detection",
                 before |-> processor.processed_image]
    /\ UNCHANGED <<HAS_OPENCV, mapperVars, colorVars, convertVars>>

Denoise ==
    /\ MayOperate
    /\ processor' = denoise(processor)
    /\ pcall' = [op |-> "denoise"]
    /\ UNCHANGED <<HAS_OPENCV, mapperVars, colorVars, convertVars>>

AutoEnhance ==
    /\ MayOperate
    /\ processor' = auto_enhance(processor)
    /\ pcall' = [op |-> "auto_enhance"]
    /\ UNCHANGED <<HAS_OPENCV, mapperVars, colorVars, convertVars>>

CropCenter ==
    /\ MayOperate
    /\ \E ratio10 \in RatioSamples :
          /\ processor' = crop_center(processor, ratio10)
          /\ pcall' = [op |-> "crop_center", ratio |-> ratio10]
    /\ UNCHANGED <<HAS_OPENCV, mapperVars, colorVars, convertVars>>

Rotate ==
    /\ MayOperate
    /\ \E angle \in AngleSamples :
          /\ processor' = rotate(processor, angle)
          /\ pcall' = [op |-> "rotate", angle |-> angle]
    /\ UNCHANGED <<HAS_OPENCV, mapperVars, colorVars, convertVars>>

FlipHorizontal ==
    /\ MayOperate
    /\ processor' = flip_horizontal(processor)
    /\ pcall' = [op |-> "flip_horizontal"]
    /\ UNCHANGED <<HAS_OPENCV, mapperVars, colorVars, convertVars>>

FlipVertical ==
    /\ MayOperate
    /\ processor' = flip_vertical(processor)
    /\ pcall' = [op |-> "flip_vertical"]
    /\ UNCHANGED <<HAS_OPENCV, mapperVars, colorVars, convertVars>>

\* before: the number of operations whose result reset replaces
Reset ==
    /\ processor # NoProcessor
    /\ pcall.op \notin {"init", "reset"}
    /\ processor' = reset(processor)
    /\ pcall' = [op |-> "reset",
                 before |-> Len(processor.processed_image.ops)]
    /\ UNCHANGED <<HAS_OPENCV, mapperVars, colorVars, convertVars>>

NextProcessor ==
    \/ Resize
    \/ ToGrayscale
    \/ AdjustContrast
    \/ AdjustBrightness
    \/ Sharpen
    \/ EdgeDetection
    \/ Denoise
    \/ AutoEnhance
    \/ CropCenter
    \/ Rotate
    \/ FlipHorizontal
    \/ FlipVertical
    \/ Reset

SpecProcessor == InitProcessor /\ [][NextProcessor]_vars

(***************************************************************************)
(* One convert call on an ASCIIConverter, a step at a time.                *)
(***************************************************************************)
MaxWidth == 3

MaxHeight == 2

\* settings with some fields given
With(settings, fields) ==
    [f \in DOMAIN settings |->
        IF f \in DOMAIN fields THEN fields[f] ELSE settings[f]]

\* widths and heights around the minimum of 1, in glyph and in emoji mode
SizeCalls ==
    {[image_path |-> f,
      settings |-> <<With(DefaultSettings,
                          [width |-> w, height |-> h, use_emoji |-> e])>>,
      kwargs |-> <<>>] :
        f \in {"quad.png", "dot.png", "bars.png"},
        w \in (0 - 1)..MaxWidth,
        h \in {<<>>} \cup {<<k>> : k \in (0 - 1)..MaxHeight},
        e \in BOOLEAN}

\* every colour mode with every way of choosing the glyph
FormatCalls ==
    {[image_path |-> f,
      settings |-> <<With(DefaultSettings,
                          [width |-> 2, color_mode |-> m, use_emoji |-> e,
                           color_emoji |-> ce, invert |-> i, charset |-> cs,
                           emoji_set |-> es])>>,
      kwargs |-> <<>>] :
        f \in {"quad.png", "dot.png"},
        m \in ColorModes,
        e \in BOOLEAN, ce \in BOOLEAN, i \in BOOLEAN,
        cs \in {"DETAILED", "SIMPLE"},
        es \in {"BRIGHTNESS", "HEARTS"}}

\* every choice of the preprocessing steps
PipelineCalls ==
    {[image_path |-> "bars.png",
      settings |-> <<With(DefaultSettings,
                          [width |-> 3, denoise |-> d, contrast |-> c,
                           brightness |-> b, auto_enhance |-> a,
                           sharpen |-> s, edge_detection |-> g,
                           use_emoji |-> e])>>,
      kwargs |-> <<>>] :
        d \in BOOLEAN, c \in {10, 12}, b \in {10, 8}, a \in BOOLEAN,
        s \in {10, 15}, g \in BOOLEAN, e \in BOOLEAN}

\* keyword overrides: names as str, Enum members, a field that does not
\* exist; each with a small width
KwargSamples ==
    {[width |-> 2, charset |-> "'simple'"],
     [width |-> 2, charset |-> "'SIMPLE'"],
     [width |-> 2, charset |-> "'invalid'"],
     [width |-> 2, charset |-> "BLOCKS"],
     [width |-> 2, emoji_set |-> "'hearts'", use_emoji |-> TRUE],
     [width |-> 2, emoji_set |-> "'invalid'", use_emoji |-> TRUE],
     [width |-> 2, color_mode |-> "'html'"],
     [width |-> 2, color_mode |-> "'invalid'"],
     [width |-> 2, color_mode |-> "ansi"],
     [width |-> 2, invert |-> TRUE],
     [width |-> 2, bogus |-> 1]}

\* keyword overrides, without a settings object and with one
KwargCalls ==
    {[image_path |-> "quad.png", settings |-> s, kwargs |-> k] :
        s \in {<<>>, <<With(DefaultSettings, [width |-> 3])>>},
        k \in KwargSamples}

\* paths that do not exist, a file of an unsupported format, a file with
\* its suffix in capitals, and a larger image
OtherCalls ==
    {[image_path |-> f, settings |-> s, kwargs |-> k] :
        f \in {"missing.png", "missing.txt", "notes.txt", "SCAN.PNG"},
        s \in {<<>>, <<With(DefaultSettings, [width |-> 3])>>},
        k \in {[width |-> 2], [width |-> 2, color_mode |-> "'html'"]}}
    \cup {[image_path |-> "gray.png", settings |-> <<>>,
           kwargs |-> [width |-> 10, charset |-> "SIMPLE"]]}

\* every str as the name of a glyph table and as the name of an emoji
\* set
NameCalls ==
    {[image_path |-> "quad.png", settings |-> <<>>,
      kwargs |-> [width |-> 2, charset |-> v]] : v \in StrValues}
    \cup {[image_path |-> "quad.png", settings |-> <<>>,
           kwargs |-> [width |-> 2, use_emoji |-> TRUE, emoji_set |-> v]] :
              v \in StrValues}

ConvertCalls ==
    SizeCalls \cup FormatCalls \cup PipelineCalls \cup KwargCalls
    \cup OtherCalls \cup NameCalls

\* ASCIIConverter(image_path) and the arguments of convert: the caller's
\* settings object, when there is one, is object 1 of the heap
InitConvert ==
    /\ IdleMapper
    /\ IdleColor
    /\ IdleProcessor
    /\ HAS_OPENCV \in BOOLEAN
    /\ \E c \in ConvertCalls :
          /\ heap = c.settings
          /\ converter = [image_path |-> c.image_path,
                          processor |-> NoProcessor, settings |-> 0]
          /\ frame = [pc |-> "call", arg |-> Len(c.settings),
                      kwargs |-> c.kwargs, settings |-> 0, local |-> 0,
                      steps |-> <<>>, cells |-> <<>>, lines |-> <<>>]
    /\ result = NoResult
    /\ other = NoCall

\* lines 119 to 135 with the settings of the converter's last call taken
\* where the code makes a new ConversionSettings
MutConvertBeginReusesSettings ==
    /\ frame.pc = "call"
    /\ LET fresh == frame.arg = 0 /\ converter.settings = 0
           ref   == IF fresh THEN Len(heap) + 1
                    ELSE IF frame.arg = 0 THEN converter.settings
                    ELSE frame.arg
           heap1 == IF fresh THEN Append(heap, DefaultSettings) ELSE heap
       IN  IF KwargsRaise(frame.kwargs)
           THEN /\ heap' = heap1
                /\ result' = Raised("ValueError")
                /\ frame' = [frame EXCEPT !.pc = "raised", !.settings = ref]
                /\ UNCHANGED converter
           ELSE /\ heap' = [heap1 EXCEPT
                               ![ref] = ApplyKwargs(@, frame.kwargs)]
                /\ converter' = [converter EXCEPT !.settings = ref]
                /\ frame' = [frame EXCEPT !.pc = "load", !.settings = ref]
                /\ UNCHANGED result
    /\ UNCHANGED <<other, mapperVars, colorVars, processorVars>>

\* lines 119 to 135
ConvertBegin ==
    /\ frame.pc = "call"
    /\ LET ref   == IF frame.arg = 0 THEN Len(heap) + 1 ELSE frame.arg
           heap1 == IF frame.arg = 0 THEN Append(heap, DefaultSettings)
                    ELSE heap
       IN  IF KwargsRaise(frame.kwargs)
           THEN /\ heap' = heap1
                /\ result' = Raised("ValueError")
                /\ frame' = [frame EXCEPT !.pc = "raised", !.settings = ref]
                /\ UNCHANGED converter
           ELSE /\ heap' = [heap1 EXCEPT
                               ![ref] = ApplyKwargs(@, frame.kwargs)]
                /\ converter' = [converter EXCEPT !.settings = ref]
                /\ frame' = [frame EXCEPT !.pc = "load", !.settings = ref]
                /\ UNCHANGED result
    /\ UNCHANGED <<other, mapperVars, colorVars, processorVars>>

\* line 138 keeping a processor that an earlier call left on the converter
MutLoadImageReusesProcessor ==
    /\ frame.pc = "load"
    /\ LET v == ValidateImage(converter.image_path)
       IN  IF v # "ok"
           THEN /\ result' = Raised(v)
                /\ frame' = [frame EXCEPT !.pc = "raised"]
                /\ UNCHANGED converter
           ELSE /\ converter' = [converter EXCEPT
                       !.processor =
                           IF @.loaded THEN @
                           ELSE ImageProcessor(converter.image_path)]
                /\ frame' = [frame EXCEPT !.pc = "denoise"]
                /\ UNCHANGED result
    /\ UNCHANGED <<heap, other, mapperVars, colorVars, processorVars>>

\* line 138
LoadImage ==
    /\ frame.pc = "load"
    /\ LET v == ValidateImage(converter.image_path)
       IN  IF v # "ok"
           THEN /\ result' = Raised(v)
                /\ frame' = [frame EXCEPT !.pc = "raised"]
                /\ UNCHANGED converter
           ELSE /\ converter' = [converter EXCEPT
                       !.processor = ImageProcessor(converter.image_path)]
                /\ frame' = [frame EXCEPT !.pc = "denoise"]
                /\ UNCHANGED result
    /\ UNCHANGED <<heap, other, mapperVars, colorVars, processorVars>>

\* one if statement of _apply_preprocessing: the step runs on
\* self.processor when the settings enable it
Preprocess(at, next, settings_ref, enabled, step, after) ==
    /\ frame.pc = at
    /\ IF enabled
       THEN /\ converter' = [converter EXCEPT !.processor = after]
            /\ frame' = [frame EXCEPT !.pc = next, !.local = settings_ref,
                                      !.steps = Append(@, step)]
       ELSE /\ frame' = [frame EXCEPT !.pc = next, !.local = settings_ref]
            /\ UNCHANGED converter
    /\ UNCHANGED <<heap, result, other, mapperVars, colorVars,
                   processorVars>>

\* lines 162 to 166; settings = self.settings is read here
StepDenoise ==
    Preprocess("denoise", "contrast", converter.settings,
               heap[converter.settings].denoise, "denoise",
               denoise(converter.processor))

\* the contrast step run whatever the factor is
MutStepContrastAlways ==
    Preprocess("contrast", "brightness", frame.local, TRUE, "contrast",
               adjust_contrast(converter.processor,
                               heap[frame.local].contrast))

\* lines 169 and 170
StepContrast ==
    Preprocess("contrast", "brightness", frame.local,
               heap[frame.local].contrast # 10, "contrast",
               adjust_contrast(converter.processor,
                               heap[frame.local].contrast))

\* lines 172 and 173
StepBrightness ==
    Preprocess("brightness", "auto_enhance", frame.local,
               heap[frame.local].brightness # 10, "brightness",
               adjust_brightness(converter.processor,
                                 heap[frame.local].brightness))

\* lines 176 and 177
StepAutoEnhance ==
    Preprocess("auto_enhance", "sharpen", frame.local,
               heap[frame.local].auto_enhance, "auto_enhance",
               auto_enhance(converter.processor))

\* lines 180 and 181
StepSharpen ==
    Preprocess("sharpen", "resize", frame.local,
               heap[frame.local].sharpen # 10, "sharpen",
               sharpen(converter.processor, heap[frame.local].sharpen))

\* the resize step left out when the image already has the width asked for
MutStepResizeWhenNeeded ==
    LET settings == heap[frame.local]
    IN  Preprocess("resize", "gray", frame.local,
                   size(converter.processor)[1] # settings.width, "resize",
                   resize(converter.processor, settings.width,
                          settings.height, settings.height = <<>>,
                          IF settings.use_emoji THEN 0 ELSE 0 - 1))

\* lines 185 to 191
StepResize ==
    LET settings == heap[frame.local]
    IN  Preprocess("resize", "gray", frame.local, TRUE, "resize",
                   resize(converter.processor, settings.width,
                          settings.height, settings.height = <<>>,
                          IF settings.use_emoji THEN 0 ELSE 0 - 1))

\* lines 194 to 197
StepEdgeOrGray ==
    /\ frame.pc = "gray"
    /\ LET settings == heap[frame.local]
       IN  IF settings.edge_detection /\ ~settings.use_emoji
           THEN Preprocess("gray", "generate", frame.local, TRUE,
                           "edge_detection",
                           edge_detection(converter.processor))
           ELSE Preprocess("gray", "generate", frame.local,
                           ~settings.use_emoji, "to_grayscale",
                           to_grayscale(converter.processor))

\* line 142: _generate_ascii, lines 201 to 257
GenerateAscii ==
    /\ frame.pc = "generate"
    /\ LET settings == heap[converter.settings]
           cells    == GenerateCells(settings, converter.processor)
       IN  frame' = [frame EXCEPT
                        !.pc = "wrap",
                        !.local = converter.settings,
                        !.cells = cells,
                        !.lines = [y \in 1..Len(cells) |->
                                      GenerateLine(settings, cells[y])]]
    /\ UNCHANGED <<heap, converter, result, other, mapperVars, colorVars,
                   processorVars>>

\* lines 145 to 158
WrapAndReturn ==
    /\ frame.pc = "wrap"
    /\ LET settings == heap[frame.settings]
           color_handler == ColorHandler(settings.color_mode)
       IN  result' =
               [kind |-> "returned",
                art |-> wrap_output(color_handler,
                                    JoinWith("\n", frame.lines),
                                    settings.use_emoji),
                width |-> size(converter.processor)[1],
                height |-> size(converter.processor)[2],
                colored |-> settings.color_mode # "none",
                is_emoji |-> settings.use_emoji,
                settings |-> frame.settings]
    /\ frame' = [frame EXCEPT !.pc = "returned"]
    /\ UNCHANGED <<heap, converter, other, mapperVars, colorVars,
                   processorVars>>

NextConvert ==
    \/ ConvertBegin
    \/ LoadImage
    \/ StepDenoise
    \/ StepContrast
    \/ StepBrightness
    \/ StepAutoEnhance
    \/ StepSharpen
    \/ StepResize
    \/ StepEdgeOrGray
    \/ GenerateAscii
    \/ WrapAndReturn

Init == InitConvert \/ InitColor

Next == NextConvert \/ NextColor

Spec == Init /\ [][Next]_vars

(***************************************************************************)
(* Two convert calls: one after the other (SpecCalls), or as two threads   *)
(* that the interpreter switches between (SpecThreads).  The call that is  *)
(* not running is kept in other.                                           *)
(***************************************************************************)
\* the arguments of a call: a settings object or None, and keywords
PairArguments ==
    {[settings |-> <<>>, kwargs |-> [width |-> 2]],
     [settings |-> <<>>, kwargs |-> [width |-> 3, color_mode |-> "'html'"]],
     [settings |-> <<>>,
      kwargs |-> [width |-> 2, charset |-> "'simple'", invert |-> TRUE]],
     [settings |-> <<With(DefaultSettings, [width |-> 3])>>,
      kwargs |-> <<>>],
     [settings |-> <<With(DefaultSettings, [width |-> 3])>>,
      kwargs |-> [width |-> 2]],
     [settings |-> <<With(DefaultSettings,
                         [width |-> 2, use_emoji |-> TRUE,
                          color_mode |-> "ansi"])>>,
      kwargs |-> [emoji_set |-> "'hearts'"]]}

\* two calls on one image: on one converter (shared) or on two, the second
\* with the settings object of the first (same) or with its own arguments
CallPairs ==
    {p \in [image_path : {"quad.png", "bars.png"},
            first : PairArguments, second : PairArguments,
            shared : BOOLEAN, same : BOOLEAN] :
        p.same => (p.first.settings # <<>> /\ p.second.settings # <<>>)}

\* two calls made as threads, each with its own settings object
ThreadPairs ==
    {p \in CallPairs :
        /\ ~p.same
        /\ p.image_path = "quad.png"
        /\ p.first.kwargs \in {<<>>, [width |-> 2]}
        /\ p.second.kwargs \in {[width |-> 3, color_mode |-> "'html'"],
                                [emoji_set |-> "'hearts'"]}}

NewConverter(image_path) ==
    [image_path |-> image_path, processor |-> NoProcessor, settings |-> 0]

NewFrame(arg, kwargs) ==
    [pc |-> "call", arg |-> arg, kwargs |-> kwargs, settings |-> 0,
     local |-> 0, steps |-> <<>>, cells |-> <<>>, lines |-> <<>>]

\* the converter or converters constructed, the settings objects of the
\* callers in the heap, the first call about to run and the second waiting
InitPair(pairs) ==
    /\ IdleMapper
    /\ IdleColor
    /\ IdleProcessor
    /\ HAS_OPENCV \in BOOLEAN
    /\ \E p \in pairs :
          LET objects == p.first.settings
                         \o (IF p.same THEN <<>> ELSE p.second.settings)
              arg2    == IF p.same THEN 1
                         ELSE IF p.second.settings = <<>> THEN 0
                         ELSE Len(objects)
          IN  /\ heap = objects
              /\ converter = NewConverter(p.image_path)
              /\ frame = NewFrame(Len(p.first.settings), p.first.kwargs)
              /\ other = [frame |-> NewFrame(arg2, p.second.kwargs),
                          result |-> NoResult,
                          converter |-> NewConverter(p.image_path),
                          shared |-> p.shared,
                          heap |-> objects]
    /\ result = NoResult

\* the other call becomes the running one; on one converter self is the
\* same object for both
Swap(snapshot) ==
    /\ frame' = other.frame
    /\ result' = other.result
    /\ converter' = IF other.shared THEN converter ELSE other.converter
    /\ other' = [frame |-> frame, result |-> result,
                 converter |-> IF other.shared THEN other.converter
                               ELSE converter,
                 shared |-> other.shared, heap |-> snapshot]
    /\ UNCHANGED <<heap, mapperVars, colorVars, processorVars>>

\* the first call has returned or raised: the caller makes the second
NextCall ==
    /\ frame.pc \in {"returned", "raised"}
    /\ other.frame.pc = "call"
    /\ Swap(heap)

\* the interpreter passes control to the other thread
Switch ==
    /\ frame.pc # "idle"
    /\ other.frame.pc \notin {"idle", "returned", "raised"}
    /\ Swap(other.heap)

InitCalls == InitPair(CallPairs)

NextCalls == NextConvert \/ NextCall

SpecCalls == InitCalls /\ [][NextCalls]_vars

InitThreads == InitPair(ThreadPairs)

NextThreads == NextConvert \/ Switch

SpecThreads == InitThreads /\ [][NextThreads]_vars

(***************************************************************************)
(* The glyph mapper's contract, in exact integer arithmetic on brightness  *)
(* counted in halves.                                                      *)
(***************************************************************************)
\* twice the brightness argument (the arguments are multiples of 0.5)
HalfUnits(F) == FTrunc(FScale2(F, 1))

\* floor(clamp(b, 0, 255) / 255 * (n - 1) + 1/2) for b = h / 2
ExactIndex(n, h) ==
    LET c == MaxInt(0, MinInt(510, h))
    IN  (c * (n - 1) + 255) \div 510

\* C1: for every brightness, below 0 and above 255 included, and every
\* table of length n >= 1, get_character returns the glyph at index
\* floor(clamp(b, 0, 255) / 255 * (n - 1) + 1/2), and that index lies in
\* 0..n-1.
C1_HalfUpIndex ==
    mcall = "get_character" =>
        LET n == mapper.num_chars
            i == ExactIndex(n, HalfUnits(brightness))
        IN  /\ n >= 1
            /\ i \in 0..(n - 1)
            /\ glyph = mapper.characters[i + 1]

\* brightness 127.5 on the six-glyph table: 2.5 + 0.5 is rounded up to 3
C1_Witness ==
    /\ mcall = "get_character"
    /\ HalfUnits(brightness) = 255
    /\ mapper.characters = SIMPLE
    /\ glyph = SIMPLE[4]

\* C2: for every table, the one-glyph table included, get_character(0) is
\* the first glyph and get_character(255) is the last.
C2_EndPoints ==
    mcall = "get_character" =>
        /\ HalfUnits(brightness) = 0 => glyph = mapper.characters[1]
        /\ HalfUnits(brightness) = 510 =>
               glyph = mapper.characters[Len(mapper.characters)]

C2_Witness ==
    /\ mcall = "get_character"
    /\ HalfUnits(brightness) = 510
    /\ mapper.characters = DETAILED
    /\ glyph = " "

\* C3: for every b in [0, 255], get_inverted_character(b) is the glyph
\* get_character returns for 255 - b; and where the first and the last
\* glyph of the table differ, the inverted and the normal glyph of
\* brightness 0 differ.
C3_InvertedIsMirrored ==
    LET h == HalfUnits(brightness)
    IN  (mcall = "get_inverted_character" /\ h \in 0..510) =>
            /\ glyph = get_character(mapper, FScale2(FFromInt(510 - h), -1))
            /\ (h = 0 /\ mapper.characters[1]
                          # mapper.characters[Len(mapper.characters)])
                   => glyph # get_character(mapper, brightness)

\* brightness 25.5 on the six-glyph table: 255 - 25.5 is a tie, index 5
C3_Witness ==
    /\ mcall = "get_inverted_character"
    /\ HalfUnits(brightness) = 51
    /\ mapper.characters = SIMPLE
    /\ glyph = SIMPLE[6]

\* the decision order of the colour-driven classification, on integers
ExpectedColor(r, g, b) ==
    IF r + g + b < 90 THEN "black"
    ELSE IF r + g + b > 675 THEN "white"
    ELSE IF r >= g /\ r >= b
         THEN IF g > 150 /\ r > 200 THEN "yellow"
              ELSE IF g > 100 THEN "orange"
              ELSE "red"
    ELSE IF g >= b THEN "green"
    ELSE IF r > 150 THEN "purple"
    ELSE "blue"

\* C4: get_colored_emoji follows the decision order black (mean < 30),
\* white (mean > 225), then by maximum channel: red maximum gives yellow
\* (g > 150 and r > 200), orange (g > 100) or red; green maximum gives
\* green; blue maximum gives purple (r > 150) or blue.  (10,10,10) is
\* black, (245,245,245) white, (220,180,10) yellow, (0,200,0) green and
\* (10,10,220) blue.
C4_ColoredEmojiDecision ==
    mcall = "get_colored_emoji" =>
        /\ glyph = color_emojis[ExpectedColor(pixel[1], pixel[2], pixel[3])]
        /\ pixel = <<10, 10, 10>> => glyph = "{U+2B1B}"
        /\ pixel = <<245, 245, 245>> => glyph = "{U+2B1C}"
        /\ pixel = <<220, 180, 10>> => glyph = "{U+1F7E8}"
        /\ pixel = <<0, 200, 0>> => glyph = "{U+1F7E9}"
        /\ pixel = <<10, 10, 220>> => glyph = "{U+1F7E6}"

C4_Witness ==
    /\ mcall = "get_colored_emoji"
    /\ pixel = <<220, 180, 10>>
    /\ glyph = color_emojis.yellow

(***************************************************************************)
(* The colour formatter's contract.                                        *)
(***************************************************************************)
HtmlReserved == {"<", ">", "&", "\"", " "}

Entity(char) ==
    CASE char = "<"  -> "&lt;"
      [] char = ">"  -> "&gt;"
      [] char = "&"  -> "&amp;"
      [] char = "\"" -> "&quot;"
      [] char = " "  -> "&nbsp;"
      [] OTHER       -> char

\* the span of the two HTML modes around a body, with a given text colour
HtmlSpan(mode, color, text_color, body) ==
    IF mode = "html"
    THEN "<span style=\"color:" \o to_html(color) \o "\">" \o body \o "</span>"
    ELSE "<span style=\"background:" \o to_html(color) \o ";color:"
         \o text_color \o "\">" \o body \o "</span>"

\* C7: in html and in html_bg mode format_character replaces a glyph that
\* is <, >, &, " or a space by its entity, once, before wrapping it in the
\* styled span (whatever text colour html_bg picks).
C7_HtmlEscapesReserved ==
    (/\ fcall = "format_character"
     /\ handler.mode \in {"html", "html_bg"}
     /\ fcolor # NoColor
     /\ fchar \in HtmlReserved) =>
        formatted \in {HtmlSpan(handler.mode, fcolor, t, Entity(fchar)) :
                           t \in {"#ffffff", "#000000"}}

\* the luminance 0.299 r + 0.587 g + 0.114 b is below 128, exactly
DarkerThan128(c) == 299 * c.r + 587 * c.g + 114 * c.b < 128000

\* C8: in ansi_bg and in html_bg mode the text over a background colour is
\* white when the luminance 0.299 r + 0.587 g + 0.114 b is below 128 and
\* black otherwise, for every colour (whatever escaping html_bg applies).
C8_ContrastingText ==
    (fcall = "format_character" /\ fcolor # NoColor) =>
        /\ handler.mode = "ansi_bg" =>
               formatted = to_ansi_bg(fcolor)
                           \o to_ansi_fg(IF DarkerThan128(fcolor)
                                         THEN RGB(255, 255, 255)
                                         ELSE RGB(0, 0, 0))
                           \o fchar \o RESET
        /\ handler.mode = "html_bg" =>
               formatted \in
                   {HtmlSpan("html_bg", fcolor,
                             IF DarkerThan128(fcolor) THEN "#ffffff"
                             ELSE "#000000", body) :
                        body \in {fchar, Entity(fchar)}}

(***************************************************************************)
(* The resize contract, in exact integer arithmetic: the height derived    *)
(* for width W on a source of ow x oh with ratio r is W * oh * r / ow,     *)
(* the fraction ExactNum / ExactDen.                                       *)
(***************************************************************************)
\* the resize call just made derived the height, for a width of 1 or more
DerivedCase ==
    /\ pcall.op = "resize"
    /\ pcall.maintain_aspect
    /\ pcall.width >= 1

ExactNum == pcall.width * pcall.before[2]

ExactDen == pcall.before[1] * (IF pcall.ratio_exp = 0 THEN 1 ELSE 2)

\* the integers nearest to num / den (two of them on a tie)
Nearest(num, den) ==
    {k \in (num \div den)..(num \div den + 1) :
        Abs(2 * num - 2 * k * den) <= den}

RECURSIVE GCD(_, _)
GCD(a, b) == IF b = 0 THEN a ELSE GCD(b, a % b)

\* oh / ow is a fraction whose denominator is a power of two, which a
\* double holds exactly
Dyadic(ow, oh) == \E k \in 0..8 : ow \div GCD(ow, oh) = Pow2(k)

\* C5, as stated: with no explicit height, the height after resize is
\* W * (source_height / source_width) * char_aspect_ratio rounded to the
\* nearest integer (to either neighbour on a tie), raised to 1 if smaller.
C5_RoundedHeight ==
    DerivedCase =>
        \E k \in Nearest(ExactNum, ExactDen) :
            processor.processed_image.size[2] = MaxInt(1, k)

\* C5, amended: with no explicit height, the height after resize is the
\* product W * (source_height / source_width) * char_aspect_ratio truncated
\* toward zero, never rounded up, and raised to 1 if smaller; the product
\* is computed in double precision, so where it is a whole number in exact
\* arithmetic and source_height / source_width is not held exactly the
\* height may be one less than that number.  A 200 x 100 source at W = 100
\* with ratio 0.5 gives 25.
C5_TruncatedHeight ==
    DerivedCase =>
        LET q == ExactNum \div ExactDen
            h == processor.processed_image.size[2]
        IN  /\ h \in {MaxInt(1, q)}
                     \cup (IF ExactNum % ExactDen = 0
                           THEN {MaxInt(1, q - 1)} ELSE {})
            /\ Dyadic(pcall.before[1], pcall.before[2]) => h = MaxInt(1, q)
            /\ (/\ pcall.before = <<200, 100>>
                /\ pcall.width = 100
                /\ pcall.ratio_exp = 0 - 1) => h = 25

\* a derived height of 1 or more that rounding would have made one larger
C5_Witness ==
    /\ DerivedCase
    /\ 2 * (ExactNum % ExactDen) > ExactDen
    /\ ExactNum \div ExactDen >= 1
    /\ processor.processed_image.size[2] = ExactNum \div ExactDen

(***************************************************************************)
(* The contract of convert.                                                *)
(***************************************************************************)
\* the convert call is past the resize step
Resized == frame.pc \in {"gray", "generate", "wrap", "returned"}

\* C6: after resize the working image is at least 1 wide and 1 high,
\* whatever width and height are configured (0 and negative values
\* included, and derived heights that come out as 0), and so is every
\* artifact convert returns.
C6_MinimumDimensions ==
    /\ Resized =>
          /\ converter.processor.processed_image.size[1] >= 1
          /\ converter.processor.processed_image.size[2] >= 1
    /\ result.kind = "returned" =>
          /\ result.width >= 1
          /\ result.height >= 1

\* an artifact returned for a width of 0 and a height of -1
C6_Witness ==
    /\ result.kind = "returned"
    /\ heap[result.settings].width = 0
    /\ heap[result.settings].height = <<0 - 1>>
    /\ result.width = 1
    /\ result.height = 1

\* what an emoji becomes in a colour mode: itself, or a span of class emoji
\* without a style
PlainEmoji(mode, emoji) ==
    IF mode \in {"html", "html_bg"}
    THEN "<span class=\"emoji\">" \o emoji \o "</span>"
    ELSE emoji

\* C9: format_emoji drops the colour, for every emoji and colour: it
\* returns the emoji unchanged under none, ansi and ansi_bg and inside a
\* span of class emoji without a colour style under html and html_bg; and
\* in emoji mode convert formats no cell with format_character: every
\* cell it colours goes through format_emoji.
C9_EmojiNeverColoured ==
    /\ fcall = "format_emoji" => formatted = PlainEmoji(handler.mode, fchar)
    /\ (frame.pc \in {"wrap", "returned"} /\ heap[frame.local].use_emoji) =>
          \A y \in 1..Len(frame.cells) :
              \A x \in 1..Len(frame.cells[y]) :
                  LET cell == frame.cells[y][x]
                      mode == heap[frame.local].color_mode
                  IN  /\ cell.via # "format_character"
                      /\ mode # "none" => cell.via = "format_emoji"
                      /\ cell.text = PlainEmoji(mode, cell.glyph)

\* an emoji conversion in ansi_bg mode has returned, its first cell
\* formatted by format_emoji
C9_Witness ==
    /\ frame.pc = "returned"
    /\ heap[frame.local].use_emoji
    /\ heap[frame.local].color_mode = "ansi_bg"
    /\ frame.cells[1][1].via = "format_emoji"
    /\ frame.cells[1][1].text = frame.cells[1][1].glyph

\* font size, line height and letter spacing of the document
DocumentSizes(is_emoji) ==
    IF is_emoji THEN <<"16px", "18px", "2px">> ELSE <<"10px", "10px", "0px">>

\* C10: under html and html_bg every row is wrapped in one block-level
\* container and the rows, joined by newlines, are embedded in the HTML
\* document, whose font size, line height and letter spacing differ
\* between emoji and glyph output; under none, ansi and ansi_bg the
\* artifact text is the rows joined by newlines and nothing else.
C10_Framing ==
    /\ \A i \in 1..3 : DocumentSizes(TRUE)[i] # DocumentSizes(FALSE)[i]
    /\ fcall = "format_line" =>
          formatted = IF handler.mode \in {"html", "html_bg"}
                      THEN "<div class=\"ascii-line\">" \o fchar \o "</div>"
                      ELSE fchar
    /\ fcall = "wrap_output" =>
          formatted = IF handler.mode \in {"html", "html_bg"}
                      THEN HtmlDocument(DocumentSizes(fflag)[1],
                                        DocumentSizes(fflag)[2],
                                        DocumentSizes(fflag)[3], fchar)
                      ELSE fchar
    /\ result.kind = "returned" =>
          LET settings == heap[result.settings]
              sizes    == DocumentSizes(settings.use_emoji)
              rows     == [y \in 1..Len(frame.cells) |->
                              ConcatTexts(frame.cells[y])]
              framed   == [y \in 1..Len(rows) |->
                              "<div class=\"ascii-line\">" \o rows[y]
                              \o "</div>"]
          IN  /\ Len(frame.lines) = result.height
              /\ IF settings.color_mode \in {"html", "html_bg"}
                 THEN /\ frame.lines = framed
                      /\ result.art =
                             HtmlDocument(sizes[1], sizes[2], sizes[3],
                                          JoinWith("\n", framed))
                 ELSE /\ frame.lines = rows
                      /\ result.art = JoinWith("\n", rows)

\* an emoji conversion in html mode has returned an artifact of two rows
C10_Witness ==
    /\ result.kind = "returned"
    /\ heap[result.settings].color_mode = "html"
    /\ heap[result.settings].use_emoji
    /\ Len(frame.lines) = 2
    /\ result.art # JoinWith("\n", frame.lines)

\* what every artifact records, whatever the explicit height
ArtifactRecords ==
    LET settings == heap[result.settings]
    IN  /\ result.width = converter.processor.processed_image.size[1]
        /\ result.height = converter.processor.processed_image.size[2]
        /\ settings.width >= 1 => result.width = settings.width
        /\ result.colored = (settings.color_mode # "none")
        /\ result.is_emoji = settings.use_emoji
        /\ result.settings = frame.settings
        /\ result.settings = converter.settings
        /\ frame.local = result.settings

\* C11, as stated: the artifact returned by convert has the width and
\* height of the working image after preprocessing (the requested width
\* when that is 1 or more, the explicit height whenever one is configured),
\* colored equal to (colour mode is not none), is_emoji equal to the emoji
\* flag and settings equal to the configuration the call used.
C11_ArtifactFields ==
    result.kind = "returned" =>
        /\ ArtifactRecords
        /\ heap[result.settings].height # <<>> =>
               result.height = heap[result.settings].height[1]

\* C11, amended: as above, the height being the explicit height only when
\* that is 1 or more; an explicit height of 0 or less gives a height of 1.
C11_ArtifactFieldsClamped ==
    result.kind = "returned" =>
        /\ ArtifactRecords
        /\ heap[result.settings].height # <<>> =>
               result.height = MaxInt(1, heap[result.settings].height[1])

\* an artifact 3 wide with an explicit height of 2 has been returned
C11_Witness ==
    /\ result.kind = "returned"
    /\ heap[result.settings].height = <<2>>
    /\ result.height = 2
    /\ result.width = 3
    /\ heap[result.settings].width = 3

\* the conversion of the uniform gray image at width 10 with
\* CharacterSet.SIMPLE, not inverted, has returned
UniformGrayCase ==
    /\ result.kind = "returned"
    /\ converter.image_path = "gray.png"
    /\ heap[result.settings].width = 10
    /\ heap[result.settings].charset = "SIMPLE"
    /\ ~heap[result.settings].invert
    /\ ~heap[result.settings].use_emoji

\* C12: converting a uniform 100 x 100 gray image of value 128 at width 10
\* with CharacterSet.SIMPLE, a table of 5 symbols, not inverted, yields
\* rows of 10 glyphs in which every cell is the middle symbol, the glyph at
\* index 2.
C12_UniformGrayMiddleGlyph ==
    UniformGrayCase =>
        /\ Len(SIMPLE) = 5
        /\ result.width = 10
        /\ \A y \in 1..Len(frame.cells) :
              /\ Len(frame.cells[y]) = 10
              /\ \A x \in 1..10 : frame.cells[y][x].glyph = SIMPLE[2 + 1]

\* the call failed with this error: nothing of the pipeline ran, no image
\* was loaded and nothing was returned
FailedWith(error) ==
    /\ result = Raised(error)
    /\ frame.pc = "raised"
    /\ frame.steps = <<>>
    /\ frame.cells = <<>>
    /\ frame.lines = <<>>
    /\ converter.processor = NoProcessor

\* C14: a conversion whose source path does not exist fails with
\* FileNotFoundError, and one whose existing file has an extension outside
\* the supported set fails with ValueError; the error is raised before any
\* preprocessing or pixel operation, it reaches the caller, and convert
\* returns no artifact.
C14_LoadErrors ==
    /\ (frame.pc \notin {"idle", "call", "load"}
        /\ ~KwargsRaise(frame.kwargs)) =>
          IF converter.image_path \in {"missing.png", "missing.txt"}
          THEN FailedWith("FileNotFoundError")
          ELSE IF converter.image_path = "notes.txt"
          THEN FailedWith("ValueError")
          ELSE result.kind # "raised"
    /\ result.kind = "raised" => frame.pc = "raised"
    /\ result.kind = "returned" => frame.pc = "returned"

\* the conversion of a path that does not exist, with an unsupported
\* suffix, has failed with FileNotFoundError
C14_Witness ==
    /\ converter.image_path = "missing.txt"
    /\ result = Raised("FileNotFoundError")
    /\ frame.steps = <<>>

\* an ASCIIConverter has been constructed
Constructed == frame.pc # "idle"

\* C15: constructing an ASCIIConverter with an image path that does not
\* exist raises FileNotFoundError, so that no converter exists for such a
\* path.
C15_ConstructorChecksPath ==
    Constructed => converter.image_path \notin {"missing.png", "missing.txt"}

\* the configuration of the call is in force and its width is zero or
\* negative
InvalidWidth ==
    /\ frame.pc \notin {"idle", "call"}
    /\ frame.settings \in 1..Len(heap)
    /\ ~KwargsRaise(frame.kwargs)
    /\ heap[frame.settings].width < 1

\* C16: convert rejects a configuration whose width is zero or negative
\* (likewise a factor out of range) with an error, before any
\* preprocessing step runs: no step runs and no artifact is returned.
C16_RejectsInvalidConfiguration ==
    InvalidWidth =>
        /\ frame.steps = <<>>
        /\ result.kind # "returned"
        /\ frame.pc \in {"load", "raised"}

\* the CharacterSet member a str names: the known names, in any case, and
\* CharacterSet.DETAILED for the rest
ExpectedCharset(v) ==
    CASE v = "'standard'"              -> "STANDARD"
      [] v = "'detailed'"              -> "DETAILED"
      [] v \in {"'simple'", "'SIMPLE'"} -> "SIMPLE"
      [] v \in {"'blocks'", "'Blocks'"} -> "BLOCKS"
      [] v = "'numbers'"               -> "NUMBERS"
      [] v = "'letters'"               -> "LETTERS"
      [] OTHER                         -> "DETAILED"

\* the table of the EmojiSet member a str names, and that of
\* EmojiSet.BRIGHTNESS for the rest
ExpectedEmojiTable(v) ==
    CASE v = "'brightness'"                   -> EMOJI_BRIGHTNESS
      [] v = "'grayscale'"                    -> EMOJI_GRAYSCALE
      [] v \in {"'hearts'", "'Hearts'"}       -> EMOJI_HEARTS
      [] v = "'squares'"                      -> EMOJI_SQUARES
      [] v = "'nature'"                       -> EMOJI_NATURE
      [] v = "'space'"                        -> EMOJI_SPACE
      [] v = "'ocean'"                        -> EMOJI_OCEAN
      [] v = "'food'"                         -> EMOJI_FOOD
      [] v = "'faces'"                        -> EMOJI_FACES
      [] v = "'weather'"                      -> EMOJI_WEATHER
      [] v = "'fire'"                         -> EMOJI_FIRE
      [] v \in {"'geometric'", "'GEOMETRIC'"} -> EMOJI_GEOMETRIC
      [] OTHER                                -> EMOJI_BRIGHTNESS

\* the keyword overrides of the call have been resolved and applied
Resolved ==
    /\ frame.pc \notin {"idle", "call"}
    /\ ~KwargsRaise(frame.kwargs)

\* C17: get_charset_by_name gives the named table for each known name and
\* CharacterSet.DETAILED for every other string, get_emoji_set_by_name the
\* named table for each known name and EmojiSet.BRIGHTNESS for every other
\* string; neither raises, and convert resolves a str given as charset or
\* emoji_set in this way.
C17_NameFallback ==
    Resolved =>
        /\ converter.settings = frame.settings
        /\ ("charset" \in DOMAIN frame.kwargs
            /\ frame.kwargs.charset \in StrValues) =>
               /\ heap[frame.settings].charset
                      = ExpectedCharset(frame.kwargs.charset)
               /\ frame.pc # "raised"
        /\ ("emoji_set" \in DOMAIN frame.kwargs
            /\ frame.kwargs.emoji_set \in StrValues) =>
               /\ heap[frame.settings].emoji_set \in EmojiSetNames
               /\ EmojiSetValue(heap[frame.settings].emoji_set)
                      = ExpectedEmojiTable(frame.kwargs.emoji_set)
               /\ frame.pc # "raised"

\* a conversion with an unknown glyph table name has returned, made with
\* CharacterSet.DETAILED
C17_Witness ==
    /\ result.kind = "returned"
    /\ "charset" \in DOMAIN frame.kwargs
    /\ frame.kwargs.charset = "'simple '"
    /\ heap[result.settings].charset = "DETAILED"

\* C20: after convert returns, nothing reachable from the ASCIIConverter
\* holds the decoded original image: the converter keeps no processor
\* with its original_image.
C20_OriginalReleased ==
    frame.pc = "returned" => converter.processor = NoProcessor

(***************************************************************************)
(* Two calls, one after the other                                          *)
(***************************************************************************)
\* both calls have returned; other holds the first call and the heap as
\* it was when the first call returned
BothReturned ==
    /\ frame.pc = "returned"
    /\ other.frame.pc = "returned"
    /\ result.kind = "returned"
    /\ other.result.kind = "returned"

\* the configuration each call used, as it was when that call returned
SameConfiguration ==
    heap[result.settings] = other.heap[other.result.settings]

\* C13: two convert calls on the same image with identical configuration
\* return the same artifact text and the same width, height, colored and
\* is_emoji, on one converter and on two
C13_SameCallSameArtifact ==
    (BothReturned /\ SameConfiguration) =>
        /\ result.art = other.result.art
        /\ result.width = other.result.width
        /\ result.height = other.result.height
        /\ result.colored = other.result.colored
        /\ result.is_emoji = other.result.is_emoji

\* two calls on one converter with the same HTML configuration, each with
\* its own settings object, have returned
C13_Witness ==
    /\ BothReturned
    /\ SameConfiguration
    /\ other.shared
    /\ result.settings # other.result.settings
    /\ result.colored
    /\ result.width = 3

\* C19: convert changes no field of an existing ConversionSettings object:
\* the caller's object is after the call what it was before it, and the
\* settings of an artifact already returned stay what they were at return
C19_SettingsNeverChanged ==
    /\ (frame.pc = "returned" /\ frame.arg # 0) =>
           heap[frame.arg] = other.heap[frame.arg]
    /\ other.result.kind = "returned" =>
           heap[other.result.settings] = other.heap[other.result.settings]

(***************************************************************************)
(* Two calls as threads                                                    *)
(***************************************************************************)
\* _apply_preprocessing run from its first line to its last on a processor
\* and a configuration that nothing else touches
PreprocessAlone(settings, p0) ==
    LET p1 == IF settings.denoise THEN denoise(p0) ELSE p0
        p2 == IF settings.contrast # 10
              THEN adjust_contrast(p1, settings.contrast) ELSE p1
        p3 == IF settings.brightness # 10
              THEN adjust_brightness(p2, settings.brightness) ELSE p2
        p4 == IF settings.auto_enhance THEN auto_enhance(p3) ELSE p3
        p5 == IF settings.sharpen # 10
              THEN sharpen(p4, settings.sharpen) ELSE p4
        p6 == resize(p5, settings.width, settings.height,
                     settings.height = <<>>,
                     IF settings.use_emoji THEN 0 ELSE 0 - 1)
    IN  IF settings.edge_detection /\ ~settings.use_emoji
        THEN edge_detection(p6)
        ELSE IF ~settings.use_emoji THEN to_grayscale(p6)
        ELSE p6

\* what convert returns for an image and a configuration when it runs
\* alone
RunAlone(image_path, settings) ==
    LET p     == PreprocessAlone(settings, ImageProcessor(image_path))
        cells == GenerateCells(settings, p)
        lines == [y \in 1..Len(cells) |-> GenerateLine(settings, cells[y])]
    IN  [art |-> wrap_output(ColorHandler(settings.color_mode),
                             JoinWith("\n", lines), settings.use_emoji),
         width |-> size(p)[1],
         height |-> size(p)[2],
         colored |-> settings.color_mode # "none",
         is_emoji |-> settings.use_emoji]

\* art, width, height, colored and is_emoji of an artifact
ArtifactOf(r) ==
    [art |-> r.art, width |-> r.width, height |-> r.height,
     colored |-> r.colored, is_emoji |-> r.is_emoji]

\* C18: however two concurrent convert calls with their own settings
\* objects interleave, on two converters or on one, each returns the
\* artifact the same call returns alone
C18_CallsIsolated ==
    result.kind = "returned" =>
        ArtifactOf(result)
            = RunAlone(converter.image_path, heap[result.settings])

(***************************************************************************)
(* The original image of a processor                                       *)
(***************************************************************************)
\* C21: whatever operations ran, original_image is the image that was
\* loaded, and reset() makes the processed image equal to it, with the
\* original size
C21_OriginalKeptAndRestored ==
    processor # NoProcessor =>
        LET path == processor.original_image.src
        IN  /\ processor.original_image = OpenImage(path)
            /\ pcall.op = "reset" =>
                   /\ processor.processed_image = OpenImage(path)
                   /\ size(processor) = FileSize(path)
                   /\ \A x \in 0..2, y \in 0..2 :
                          PixelOf(processor.processed_image, x, y)
                              = FilePixel(path, x, y)

\* reset has replaced the result of two operations by the original, 3
\* wide and 13 high
C21_Witness ==
    /\ processor # NoProcessor
    /\ pcall.op = "reset"
    /\ pcall.before = 2
    /\ size(processor) = <<3, 13>>

(***************************************************************************)
(* The preprocessing steps of a convert call                               *)
(***************************************************************************)
\* the place of a step in the order of _apply_preprocessing
StepRank(step) ==
    CASE step = "denoise" -> 1
      [] step = "contrast" -> 2
      [] step = "brightness" -> 3
      [] step = "auto_enhance" -> 4
      [] step = "sharpen" -> 5
      [] step = "resize" -> 6
      [] step \in {"edge_detection", "to_grayscale"} -> 7

\* the step has run in the call
Ran(step) == \E i \in 1..Len(frame.steps) : frame.steps[i] = step

\* _apply_preprocessing has returned
Preprocessed == frame.pc \in {"generate", "wrap", "returned"}

\* C22: the steps that run do so in the order denoise, contrast,
\* brightness, auto-enhance, sharpen, resize, then edge detection or
\* grayscale: none after a later one, none twice, and resize always
C22_StepOrder ==
    frame.pc # "idle" =>
        /\ \A i, j \in 1..Len(frame.steps) :
              i < j => StepRank(frame.steps[i]) < StepRank(frame.steps[j])
        /\ Resized => Ran("resize")

\* a call in which all seven steps ran has returned
C22_Witness ==
    /\ frame.pc = "returned"
    /\ Len(frame.steps) = 7
    /\ frame.steps[6] = "resize"
    /\ frame.steps[7] = "edge_detection"

\* C23: a step runs exactly when the configuration enables it; in glyph
\* mode exactly one of edge detection (when its flag is set) and grayscale
\* conversion runs, in emoji mode neither
C23_StepsAsConfigured ==
    (frame.pc # "idle" /\ Preprocessed) =>
        LET settings == heap[frame.settings]
        IN  /\ Ran("denoise") <=> settings.denoise
            /\ Ran("contrast") <=> settings.contrast # 10
            /\ Ran("brightness") <=> settings.brightness # 10
            /\ Ran("auto_enhance") <=> settings.auto_enhance
            /\ Ran("sharpen") <=> settings.sharpen # 10
            /\ Ran("edge_detection") <=>
                   (settings.edge_detection /\ ~settings.use_emoji)
            /\ Ran("to_grayscale") <=>
                   (~settings.edge_detection /\ ~settings.use_emoji)

\* an emoji call with the edge flag set and neutral factors has returned:
\* only denoise and resize ran
C23_Witness ==
    /\ frame.pc = "returned"
    /\ heap[frame.settings].use_emoji
    /\ heap[frame.settings].edge_detection
    /\ frame.steps = <<"denoise", "resize">>

(***************************************************************************)
(* The cells of a convert call                                             *)
(***************************************************************************)
\* the glyph of a cell by the priority colour-driven emoji, inverted
\* mapping, standard mapping, from the intensity and the colour of the
\* cell alone
ExpectedGlyph(settings, gray, color) ==
    LET chmapper == CharacterMapper(settings.charset,
                        IF settings.use_emoji THEN settings.emoji_set
                        ELSE "None",
                        settings.use_emoji)
    IN  IF settings.use_emoji /\ settings.color_emoji
        THEN get_colored_emoji(color[1], color[2], color[3])
        ELSE IF settings.invert
        THEN get_inverted_character(chmapper, FFromInt(gray))
        ELSE get_character(chmapper, FFromInt(gray))

\* _generate_ascii has returned
Generated == frame.pc \in {"wrap", "returned"}

\* C24: every cell's glyph is the colour-driven emoji when emoji mode and
\* colour-driven emoji are both set, otherwise the inverted mapping when
\* invert is set, otherwise the standard mapping, of the intensity and
\* colour at that cell; rows are made top to bottom, each from its cells
\* left to right
C24_GlyphPriority ==
    Generated =>
        LET settings == heap[frame.local]
            grays    == get_pixel_matrix(converter.processor)
            colors   == get_color_matrix(converter.processor)
        IN  /\ Len(frame.cells) = Len(grays)
            /\ Len(frame.lines) = Len(grays)
            /\ \A y \in 1..Len(grays) :
                  /\ Len(frame.cells[y]) = Len(grays[y])
                  /\ frame.lines[y] = GenerateLine(settings, frame.cells[y])
                  /\ \A x \in 1..Len(grays[y]) :
                        frame.cells[y][x].glyph
                            = ExpectedGlyph(settings, grays[y][x],
                                            colors[y][x])

\* an emoji call with colour-driven emoji and invert both set has
\* returned; its first cell, black, is the colour-driven emoji and not the
\* inverted one
C24_Witness ==
    /\ frame.pc = "returned"
    /\ heap[frame.local].use_emoji
    /\ heap[frame.local].color_emoji
    /\ heap[frame.local].invert
    /\ Len(frame.cells) = 2
    /\ frame.cells[1][1].glyph
         = get_colored_emoji(0, 0, 0)
    /\ frame.cells[1][1].glyph
         # get_inverted_character(
               CharacterMapper("DETAILED", heap[frame.local].emoji_set, TRUE),
               FFromInt(0))

\* the call builds a colour matrix
HasColor(settings) == settings.color_mode # "none" \/ settings.color_emoji

\* C25: a colour matrix has the width and height of the intensity matrix
\* and is resampled from the image as loaded: it is the matrix of a call
\* whose only step is resize, its values are pixels of the file, and the
\* colour of every coloured glyph cell is taken from it
C25_ColorFromOriginal ==
    (Generated /\ HasColor(heap[frame.local])) =>
        LET settings == heap[frame.local]
            path     == converter.image_path
            from     == FileSize(path)
            grays    == get_pixel_matrix(converter.processor)
            colors   == get_color_matrix(converter.processor)
            plain    == resize(ImageProcessor(path), settings.width,
                               settings.height, settings.height = <<>>,
                               IF settings.use_emoji THEN 0 ELSE 0 - 1)
        IN  /\ Len(colors) = Len(grays)
            /\ colors = get_color_matrix(plain)
            /\ \A y \in 1..Len(colors) :
                  /\ Len(colors[y]) = Len(grays[y])
                  /\ \A x \in 1..Len(colors[y]) :
                        /\ colors[y][x]
                             = FilePixel(path,
                                   ((x - 1) * from[1]) \div Len(colors[y]),
                                   ((y - 1) * from[2]) \div Len(colors))
                        /\ (~settings.use_emoji
                            /\ settings.color_mode # "none") =>
                               frame.cells[y][x].text
                                 = format_character(
                                       ColorHandler(settings.color_mode),
                                       frame.cells[y][x].glyph,
                                       RGB(colors[y][x][1], colors[y][x][2],
                                           colors[y][x][3]))

\* a glyph call in ansi mode has returned after denoise, contrast and
\* grayscale conversion changed the working image
C25_Witness ==
    /\ frame.pc = "returned"
    /\ heap[frame.local].color_mode = "ansi"
    /\ ~heap[frame.local].use_emoji
    /\ Ran("contrast")
    /\ Ran("to_grayscale")
    /\ converter.image_path = "quad.png"
    /\ PixelOf(converter.processor.processed_image, 0, 1)
         # FilePixel("quad.png", 0, 1)

\* C26: in emoji mode without colour-driven emoji the grayscale step is
\* skipped, the working image keeps its three channels, and the brightness
\* that picks each emoji is the grayscale value of the preprocessed,
\* resized working image at the cell
C26_EmojiBrightnessIsGray ==
    (Generated /\ heap[frame.local].use_emoji
     /\ ~heap[frame.local].color_emoji) =>
        LET settings == heap[frame.local]
            img      == converter.processor.processed_image
            chmapper == CharacterMapper(settings.charset, settings.emoji_set,
                                        TRUE)
        IN  /\ ~Ran("to_grayscale")
            /\ ~Ran("edge_detection")
            /\ Ran("resize")
            /\ img.mode = "RGB"
            /\ Len(frame.cells) = img.size[2]
            /\ \A y \in 1..Len(frame.cells) :
                  /\ Len(frame.cells[y]) = img.size[1]
                  /\ \A x \in 1..Len(frame.cells[y]) :
                        LET gray == FFromInt(Luma(PixelOf(img, x - 1, y - 1)))
                        IN  frame.cells[y][x].glyph
                              = IF settings.invert
                                THEN get_inverted_character(chmapper, gray)
                                ELSE get_character(chmapper, gray)

\* an emoji call by brightness has returned; the first cell of the second
\* row of its working image has a grayscale value that none of its
\* channels has
C26_Witness ==
    /\ frame.pc = "returned"
    /\ heap[frame.local].use_emoji
    /\ ~heap[frame.local].color_emoji
    /\ Len(frame.cells) = 2
    /\ LET p == PixelOf(converter.processor.processed_image, 0, 1)
       IN  /\ Luma(p) # p[1]
           /\ Luma(p) # p[2]
           /\ Luma(p) # p[3]

(***************************************************************************)
(* Edge detection                                                          *)
(***************************************************************************)
\* how much the grayscale value at (x, y) differs from its right and lower
\* neighbours
EdgeStrength(img, x, y) ==
    LET c  == Luma(PixelOf(img, x, y))
        rx == Luma(PixelOf(img, MinInt(x + 1, img.size[1] - 1), y))
        dy == Luma(PixelOf(img, x, MinInt(y + 1, img.size[2] - 1)))
    IN  Abs(c - rx) + Abs(c - dy)

Anchors ==
    {FFromInt(0), FScale2(FFromInt(255), 0 - 1), FFromInt(255)}

\* the index get_inverted_character chooses
InvertedIndex(num_chars, F) ==
    CharacterIndex(num_chars, FSub(FFromInt(255), F))

\* i and j are in the order of F and G, or in the opposite order
Ordered(F, i, G, j, increasing) ==
    /\ FLess(F, G) => IF increasing THEN i <= j ELSE i >= j
    /\ FLess(G, F) => IF increasing THEN j <= i ELSE j >= i

\* C28: the index get_character chooses never decreases when the
\* brightness increases and the index get_inverted_character chooses never
\* increases: checked for the brightness of the call against the next
\* lower brightness and against the anchors
C28_Monotone ==
    LET n      == mapper.num_chars
        others == Anchors \cup {FSub(brightness, FLit(5, 10))}
    IN  /\ mcall = "get_character" =>
              LET i == CharacterIndex(n, brightness)
              IN  /\ glyph = mapper.characters[i + 1]
                  /\ \A F \in others :
                        Ordered(F, CharacterIndex(n, F), brightness, i, TRUE)
        /\ mcall = "get_inverted_character" =>
              LET i == InvertedIndex(n, brightness)
              IN  /\ glyph = mapper.characters[i + 1]
                  /\ \A F \in others :
                        Ordered(F, InvertedIndex(n, F), brightness, i, FALSE)

\* the inverted mapping of brightness 64 on the block table lies strictly
\* between those of 0 and of 255
C28_Witness ==
    /\ mcall = "get_inverted_character"
    /\ mapper.characters = BLOCKS
    /\ HalfUnits(brightness) = 128
    /\ InvertedIndex(mapper.num_chars, FFromInt(255))
         < InvertedIndex(mapper.num_chars, brightness)
    /\ InvertedIndex(mapper.num_chars, brightness)
         < InvertedIndex(mapper.num_chars, FFromInt(0))

(***************************************************************************)
(* The grid of an artifact                                                 *)
(***************************************************************************)
\* C29: in every colour mode, glyph or emoji, the artifact is made of
\* exactly height rows of exactly width cells each, width and height being
\* those the artifact records; each row is the text of its cells, once and
\* in order, and the artifact text is made of the rows joined by newlines
C29_GridMatchesArtifact ==
    result.kind = "returned" =>
        LET settings == heap[result.settings]
        IN  /\ Len(frame.cells) = result.height
            /\ Len(frame.lines) = result.height
            /\ \A y \in 1..result.height :
                  /\ Len(frame.cells[y]) = result.width
                  /\ frame.lines[y] = GenerateLine(settings, frame.cells[y])
                  /\ \A x \in 1..result.width :
                        /\ frame.cells[y][x].text # ""
                        /\ frame.cells[y][x].glyph # ""
            /\ result.art = wrap_output(ColorHandler(settings.color_mode),
                                        JoinWith("\n", frame.lines),
                                        settings.use_emoji)

\* an artifact of five rows of ten glyphs has been returned
C29_Witness ==
    /\ result.kind = "returned"
    /\ result.width = 10
    /\ result.height = 5
    /\ Len(frame.cells) = 5
    /\ Len(frame.cells[5]) = 10

(***************************************************************************)
(* A call without a settings object after another call                     *)
(***************************************************************************)
\* the second call of a converter, made without a settings object, has
\* returned
SecondCallFresh ==
    /\ result.kind = "returned"
    /\ other.frame.pc \in {"returned", "raised"}
    /\ other.shared
    /\ frame.arg = 0

\* C30: a call without a settings object, made after another call on the
\* same converter, uses a new settings object holding the defaults and its
\* own keyword overrides, and returns the artifact a new converter returns
\* for the same arguments
C30_FreshDefaults ==
    SecondCallFresh =>
        LET settings == ApplyKwargs(DefaultSettings, frame.kwargs)
        IN  /\ result.settings \notin 1..Len(other.heap)
            /\ heap[result.settings] = settings
            /\ ArtifactOf(result) = RunAlone(converter.image_path, settings)

\* after a call that returned an HTML artifact 3 wide, a call on the same
\* converter with width=2 alone has returned an uncoloured artifact 2 wide
C30_Witness ==
    /\ SecondCallFresh
    /\ other.result.kind = "returned"
    /\ other.result.colored
    /\ other.result.width = 3
    /\ ~result.colored
    /\ result.width = 2
    /\ frame.kwargs = [width |-> 2]

====
